---- MODULE Spec2Model ----
(***************************************************************************)
(* Verification model of the inferno cabling engine:                       *)
(*   - BOM / intent reconciliation (inferno_tools.cabling.cross_validate)  *)
(*   - geometry and media selection (inferno_tools.cabling.common)         *)
(*   - the lengths pass and the orchestrator                               *)
(*     (inferno_core.validation.cabling)                                   *)
(*                                                                         *)
(* Each component has its own specification (SpecRecon, SpecGeom, ...).    *)
(* All of them share the variable `mode`, which names the component that   *)
(* is running; the variables of the other components stay at Idle.         *)
(*                                                                         *)
(* Python dicts are modelled as sequences of [bin, n] records with         *)
(* distinct keys: the order of the sequence is the dict's insertion order, *)
(* which is the order Python iterates it in.                               *)
(* Lengths in metres are exact rationals: a distance is an integer number  *)
(* of 1/DistScale m, a slack factor an integer number of 1/SlackScale, so  *)
(* a slack-adjusted distance is an integer number of 1/AdjScale m.  IEEE   *)
(* rounding of the float product is not modelled.                          *)
(***************************************************************************)
EXTENDS Integers, Sequences, FiniteSets, TLC

VARIABLES
    mode,               \* which component this behaviour runs
    pc,                 \* position inside the running function
    topology,           \* validation: the loaded topology manifest
    nodes,              \* validation: the loaded nodes manifest
    site,               \* validation: the loaded site manifest, or NoSite
    policy,             \* validation: the cabling policy
    bom_structure,      \* reconcile: argument, group -> dict
    intent_structure,   \* reconcile: argument, group -> dict
    bin_slop_m,         \* reconcile: policy heuristics.bin_slop_m
    group_order,        \* reconcile: iteration order of the tracking dicts
    reconciled_bom,     \* reconcile: local tracking dict
    reconciled_intent,  \* reconcile: local tracking dict
    findings,           \* the findings list the running function builds
    distance_m,         \* geometry: base distance, in 1/DistScale m
    slack_factor,       \* geometry: heuristics.slack_factor, in 1/SlackScale
    length_bins_m,      \* geometry: the list of bins, in the caller's order
    link_type,          \* geometry: "25G", "100G", "RJ45" or another string
    dac_max_m,          \* geometry: dac_max_m of the link's media rule, in m
    labels_set,         \* geometry: whether the media rule carries labels
    called,             \* geometry: the function that was called
    result,             \* geometry: what it returned
    files,              \* orchestrators: the state of each input file
    disk,               \* orchestrators: what the readable input files hold
    loaders,            \* cross-validation: what the manifest loaders return
    pass_findings,      \* validation: findings of the passes around the lengths pass
    report,             \* orchestrators: the report returned
    tors,               \* validation: the loaded ToRs, a dict tor id -> record
    done,               \* validation: the passes that have run
    links,              \* BOM / intent: list of links
    spares_fraction,    \* BOM: the spares_fraction argument
    cable_bom           \* BOM: the aggregated bill of materials

reconVars == <<bom_structure, intent_structure, bin_slop_m, group_order,
               reconciled_bom, reconciled_intent>>

validationVars == <<topology, nodes, site, policy>>

geomVars == <<distance_m, slack_factor, length_bins_m, link_type, dac_max_m,
              labels_set, called, result>>

orchVars == <<files, disk, loaders, pass_findings, report>>

passVars == <<tors, done>>

bomVars == <<links, spares_fraction, cable_bom>>

vars == <<mode, pc, findings, reconVars, geomVars, validationVars, orchVars, passVars,
          bomVars>>

\* Python's None (bins, counts and quantities are never negative).
None == 0 - 1

\* The value of a variable that belongs to a component that is not running.
Idle == <<>>

(***************************************************************************)
(* Python dict helpers                                                     *)
(***************************************************************************)
Keys(d) == [i \in 1..Len(d) |-> d[i].bin]

KeySet(d) == {d[i].bin : i \in 1..Len(d)}

HasKey(d, b) == b \in KeySet(d)

Get(d, b) == d[CHOOSE i \in 1..Len(d) : d[i].bin = b].n

SetItem(d, b, v) ==
    IF HasKey(d, b)
    THEN [i \in 1..Len(d) |-> IF d[i].bin = b THEN [bin |-> b, n |-> v] ELSE d[i]]
    ELSE Append(d, [bin |-> b, n |-> v])

IsKey(e, b) == e.bin = b

DelItem(d, b) == SelectSeq(d, LAMBDA e : ~IsKey(e, b))

InSeq(s, x) == \E i \in 1..Len(s) : s[i] = x

Min2(a, b) == IF a <= b THEN a ELSE b

Abs(x) == IF x < 0 THEN 0 - x ELSE x

RECURSIVE SumN(_)
SumN(d) == IF d = <<>> THEN 0 ELSE Head(d).n + SumN(Tail(d))

\* The components that are not running.
ReconIdle ==
    /\ bom_structure = Idle /\ intent_structure = Idle /\ bin_slop_m = Idle
    /\ group_order = Idle /\ reconciled_bom = Idle /\ reconciled_intent = Idle

GeomIdle ==
    /\ distance_m = Idle /\ slack_factor = Idle /\ length_bins_m = Idle
    /\ link_type = Idle /\ dac_max_m = Idle /\ labels_set = Idle
    /\ called = Idle /\ result = Idle

ValidationIdle ==
    /\ topology = Idle /\ nodes = Idle /\ site = Idle /\ policy = Idle

OrchIdle ==
    /\ files = Idle /\ disk = Idle /\ loaders = Idle /\ pass_findings = Idle
    /\ report = Idle

PassIdle == tors = Idle /\ done = Idle

BomIdle == links = Idle /\ spares_fraction = Idle /\ cable_bom = Idle

(***************************************************************************)
(* Reconciliation: _reconcile_bom_vs_intent                                *)
(***************************************************************************)
\* The (class, cable_type) groups of the structures being reconciled.
Groups == {<<"leaf-node", "sfp28_25g">>, <<"leaf-spine", "qsfp28_100g">>}

\* Largest total quantity of one group on one side.
MaxQty == 2

\* Length bins the leaf-node group may use, and the leaf-spine dicts.
LeafNodeBins == {1, 3, 5}

LeafSpineDicts ==
    {<<>>, <<[bin |-> 7, n |-> 1]>>, <<[bin |-> 7, n |-> 2]>>}

\* Tolerances drawn for heuristics.bin_slop_m (2.0 is the code's default).
BinSlops == {0, 2}

InjSeqs(B) ==
    UNION {{s \in [1..k -> B] : \A i, j \in 1..k : i # j => s[i] # s[j]} :
           k \in 0..Cardinality(B)}

RECURSIVE SumSeq(_)
SumSeq(c) == IF c = <<>> THEN 0 ELSE Head(c) + SumSeq(Tail(c))

\* Every dict bin -> count over B with positive counts, in every insertion
\* order, whose total quantity is at most q.
Dicts(B, q) ==
    UNION {{[i \in 1..Len(s) |-> [bin |-> s[i], n |-> c[i]]] :
            c \in {c \in [1..Len(s) -> 1..q] : SumSeq(c) <= q}} :
           s \in InjSeqs(B)}

GroupDicts(g) ==
    IF g[1] = "leaf-node" THEN Dicts(LeafNodeBins, MaxQty) ELSE LeafSpineDicts

Structures == {s \in [Groups -> UNION {GroupDicts(g) : g \in Groups}] :
               \A g \in Groups : s[g] \in GroupDicts(g)}

\* The orders in which the tracking dicts can hold the groups: the keys come
\* out of a Python set, whose order is not fixed.
GroupOrders == InjSeqs(Groups) \ {s \in InjSeqs(Groups) : Len(s) < Cardinality(Groups)}

Finding(severity, code, g, bom_bin_m, intent_bin_m, length_bin_m, required, provided) ==
    [severity |-> severity, code |-> code, class |-> g[1], cable_type |-> g[2],
     bom_bin_m |-> bom_bin_m, intent_bin_m |-> intent_bin_m,
     length_bin_m |-> length_bin_m, required |-> required, provided |-> provided]

\* matched = min(bom_count, intent_count)
Matched(bom_count, intent_count) == Min2(bom_count, intent_count)

\* Lines 318-322: "Remove zero entries".
RemoveZeroEntryNever(d, bin_size) == d

RemoveZeroEntry(d, bin_size) ==
    IF Get(d, bin_size) = 0 THEN DelItem(d, bin_size) ELSE d

\* Lines 308-322: subtract the exact matches, drop the entries that reach 0.
RECURSIVE ExactLoop(_, _, _, _, _)
ExactLoop(rb, ri, bom_bins, intent_bins, i) ==
    IF i > Len(bom_bins) THEN [rb |-> rb, ri |-> ri]
    ELSE LET bin_size == bom_bins[i] IN
         IF InSeq(intent_bins, bin_size)
         THEN LET bom_count == Get(rb, bin_size)
                  intent_count == Get(ri, bin_size)
                  matched == Matched(bom_count, intent_count)
                  rb1 == SetItem(rb, bin_size, bom_count - matched)
                  ri1 == SetItem(ri, bin_size, intent_count - matched)
                  rb2 == RemoveZeroEntry(rb1, bin_size)
                  ri2 == RemoveZeroEntry(ri1, bin_size)
              IN  ExactLoop(rb2, ri2, bom_bins, intent_bins, i + 1)
         ELSE ExactLoop(rb, ri, bom_bins, intent_bins, i + 1)

\* A selection that does not depend on the order of the list: of the
\* elements at the least distance, the smallest.
ClosestIntentBinSmallest(remaining_intent_bins, bom_bin) ==
    LET dist(i) == Abs(remaining_intent_bins[i] - bom_bin)
        k == CHOOSE i \in 1..Len(remaining_intent_bins) :
                 /\ \A j \in 1..Len(remaining_intent_bins) : dist(i) <= dist(j)
                 /\ \A j \in 1..Len(remaining_intent_bins) :
                        dist(j) = dist(i) =>
                            remaining_intent_bins[i] <= remaining_intent_bins[j]
    IN  remaining_intent_bins[k]

\* min(remaining_intent_bins, key=lambda x: abs(x - bom_bin)): the first
\* element of the list at the least distance.
ClosestIntentBin(remaining_intent_bins, bom_bin) ==
    LET dist(i) == Abs(remaining_intent_bins[i] - bom_bin)
        k == CHOOSE i \in 1..Len(remaining_intent_bins) :
                 /\ \A j \in 1..Len(remaining_intent_bins) : dist(i) <= dist(j)
                 /\ \A j \in 1..(i - 1) : dist(j) > dist(i)
    IN  remaining_intent_bins[k]

\* Line 339: WARN when the BOM bin is the larger one and within the slop.
IsWithinSlopEitherWay(bom_bin, closest_intent_bin, slop) ==
    Abs(bom_bin - closest_intent_bin) <= slop

IsWithinSlop(bom_bin, closest_intent_bin, slop) ==
    bom_bin >= closest_intent_bin /\ (bom_bin - closest_intent_bin) <= slop

BinMismatchFinding(g, bom_bin, closest_intent_bin, slop) ==
    IF IsWithinSlop(bom_bin, closest_intent_bin, slop)
    THEN Finding("WARN", "BIN_MISMATCH_WARN", g, bom_bin, closest_intent_bin, None, None, None)
    ELSE Finding("FAIL", "BIN_MISMATCH_FAIL", g, bom_bin, closest_intent_bin, None, None, None)

\* Lines 361-362, "Consume both entries": del remaining_bom[bom_bin] and
\* del remaining_intent[closest_intent_bin].
ConsumeIntentNever(ri, closest_intent_bin) == ri

ConsumeIntent(ri, closest_intent_bin) == DelItem(ri, closest_intent_bin)

\* Lines 328-364.  remaining_intent_bins is the list taken before the loop:
\* it still holds the bins this loop has deleted from the dict, so the
\* lookup on line 334 raises KeyError when it picks one of them.
RECURSIVE MismatchLoop(_, _, _, _, _, _, _, _)
MismatchLoop(g, rb, ri, f, remaining_bom_bins, remaining_intent_bins, slop, i) ==
    IF i > Len(remaining_bom_bins)
    THEN [rb |-> rb, ri |-> ri, f |-> f, raised |-> FALSE]
    ELSE LET bom_bin == remaining_bom_bins[i] IN
         IF remaining_intent_bins = <<>>
         THEN MismatchLoop(g, rb, ri, f, remaining_bom_bins, remaining_intent_bins, slop, i + 1)
         ELSE LET closest_intent_bin == ClosestIntentBin(remaining_intent_bins, bom_bin) IN
              IF ~HasKey(ri, closest_intent_bin)
              THEN [rb |-> rb, ri |-> ri, f |-> f, raised |-> TRUE]
              ELSE IF Get(rb, bom_bin) = Get(ri, closest_intent_bin)
                   THEN MismatchLoop(g, DelItem(rb, bom_bin), ConsumeIntent(ri, closest_intent_bin),
                                     Append(f, BinMismatchFinding(g, bom_bin, closest_intent_bin, slop)),
                                     remaining_bom_bins, remaining_intent_bins, slop, i + 1)
                   ELSE MismatchLoop(g, rb, ri, f, remaining_bom_bins, remaining_intent_bins,
                                     slop, i + 1)

\* Lines 302-364 for one group: exact matches, then bin mismatches.
FirstPassGroup(g, rb, ri, f, slop) ==
    LET ex == ExactLoop(rb, ri, Keys(rb), Keys(ri), 1)
    IN  MismatchLoop(g, ex.rb, ex.ri, f, Keys(ex.rb), Keys(ex.ri), slop, 1)

\* Lines 302-364 over the groups in the tracking dict's order.
RECURSIVE FirstPassLoop(_, _, _, _, _, _)
FirstPassLoop(order, RB, RI, f, slop, k) ==
    IF k > Len(order) THEN [RB |-> RB, RI |-> RI, f |-> f, raised |-> FALSE]
    ELSE LET g == order[k]
             r == FirstPassGroup(g, RB[g], RI[g], f, slop)
         IN  IF r.raised
             THEN [RB |-> [RB EXCEPT ![g] = r.rb], RI |-> [RI EXCEPT ![g] = r.ri],
                   f |-> r.f, raised |-> TRUE]
             ELSE FirstPassLoop(order, [RB EXCEPT ![g] = r.rb], [RI EXCEPT ![g] = r.ri],
                                r.f, slop, k + 1)

MissingFindingProvidedAll(g, length_bin, required_count) ==
    Finding("FAIL", "MISSING_LINK", g, None, None, length_bin, required_count, required_count)

MissingFinding(g, length_bin, required_count) ==
    Finding("FAIL", "MISSING_LINK", g, None, None, length_bin, required_count, 0)

PhantomFindingAsFail(g, length_bin, provided_count) ==
    Finding("FAIL", "PHANTOM_ITEM", g, None, None, length_bin, 0, provided_count)

PhantomFinding(g, length_bin, provided_count) ==
    Finding("WARN", "PHANTOM_ITEM", g, None, None, length_bin, 0, provided_count)

\* Lines 369-385 for one group.
RECURSIVE MissingOfGroup(_, _, _)
MissingOfGroup(g, d, i) ==
    IF i > Len(d) THEN <<>>
    ELSE (IF d[i].n > 0 THEN <<MissingFinding(g, d[i].bin, d[i].n)>> ELSE <<>>)
         \o MissingOfGroup(g, d, i + 1)

\* Lines 389-405 for one group.
RECURSIVE PhantomOfGroup(_, _, _)
PhantomOfGroup(g, d, i) ==
    IF i > Len(d) THEN <<>>
    ELSE (IF d[i].n > 0 THEN <<PhantomFinding(g, d[i].bin, d[i].n)>> ELSE <<>>)
         \o PhantomOfGroup(g, d, i + 1)

RECURSIVE MissingLoop(_, _, _)
MissingLoop(order, RI, k) ==
    IF k > Len(order) THEN <<>>
    ELSE MissingOfGroup(order[k], RI[order[k]], 1) \o MissingLoop(order, RI, k + 1)

RECURSIVE PhantomLoop(_, _, _)
PhantomLoop(order, RB, k) ==
    IF k > Len(order) THEN <<>>
    ELSE PhantomOfGroup(order[k], RB[order[k]], 1) \o PhantomLoop(order, RB, k + 1)

InitRecon ==
    /\ mode = "reconcile"
    /\ pc = "start"
    /\ bom_structure \in Structures
    /\ intent_structure \in Structures
    /\ bin_slop_m \in BinSlops
    /\ group_order = Idle
    /\ reconciled_bom = Idle
    /\ reconciled_intent = Idle
    /\ findings = <<>>
    /\ GeomIdle /\ ValidationIdle /\ OrchIdle
    /\ PassIdle /\ BomIdle

\* Lines 274-299: read the tolerance, copy the counts into the tracking dicts.
ReconCopy ==
    /\ mode = "reconcile" /\ pc = "start"
    /\ group_order' \in GroupOrders
    /\ reconciled_bom' = bom_structure
    /\ reconciled_intent' = intent_structure
    /\ pc' = "first_pass"
    /\ UNCHANGED <<mode, bom_structure, intent_structure, bin_slop_m, findings, geomVars,
                   validationVars, orchVars,
                   passVars, bomVars>>

\* Lines 301-364; a KeyError leaves the function without a findings list.
ReconFirstPass ==
    /\ mode = "reconcile" /\ pc = "first_pass"
    /\ LET r == FirstPassLoop(group_order, reconciled_bom, reconciled_intent,
                              findings, bin_slop_m, 1)
       IN  /\ reconciled_bom' = r.RB
           /\ reconciled_intent' = r.RI
           /\ findings' = r.f
           /\ pc' = IF r.raised THEN "raised" ELSE "missing_pass"
    /\ UNCHANGED <<mode, bom_structure, intent_structure, bin_slop_m, group_order, geomVars,
                   validationVars, orchVars,
                   passVars, bomVars>>

\* Lines 366-385.
ReconMissingPass ==
    /\ mode = "reconcile" /\ pc = "missing_pass"
    /\ findings' = findings \o MissingLoop(group_order, reconciled_intent, 1)
    /\ pc' = "phantom_pass"
    /\ UNCHANGED <<mode, bom_structure, intent_structure, bin_slop_m, group_order,
                   reconciled_bom, reconciled_intent, geomVars, validationVars, orchVars,
                   passVars, bomVars>>

\* Lines 387-407.
ReconPhantomPass ==
    /\ mode = "reconcile" /\ pc = "phantom_pass"
    /\ findings' = findings \o PhantomLoop(group_order, reconciled_bom, 1)
    /\ pc' = "done"
    /\ UNCHANGED <<mode, bom_structure, intent_structure, bin_slop_m, group_order,
                   reconciled_bom, reconciled_intent, geomVars, validationVars, orchVars,
                   passVars, bomVars>>

NextRecon == ReconCopy \/ ReconFirstPass \/ ReconMissingPass \/ ReconPhantomPass

SpecRecon == InitRecon /\ [][NextRecon]_vars

(***************************************************************************)
(* Properties of the reconciliation                                        *)
(***************************************************************************)
ReconDone == mode = "reconcile" /\ pc = "done"

\* Two dicts that hold the same bin -> count mapping, in whatever order.
SameDict(a, b) ==
    /\ KeySet(a) = KeySet(b)
    /\ \A k \in KeySet(a) : Get(a, k) = Get(b, k)

\* Group g has the same bins on both sides and the same counts everywhere
\* but at bin b; every other group is the same on both sides.
OnlyBinDiffers(g, b) ==
    /\ KeySet(bom_structure[g]) = KeySet(intent_structure[g])
    /\ b \in KeySet(bom_structure[g])
    /\ \A k \in KeySet(bom_structure[g]) \ {b} :
           Get(bom_structure[g], k) = Get(intent_structure[g], k)
    /\ \A h \in Groups \ {g} : SameDict(bom_structure[h], intent_structure[h])

\* C1: reconciling a structure against an equal structure never raises and
\* returns an empty findings list, for every tolerance.
C1_ReconcileSelfNoFindings ==
    (mode = "reconcile" /\ \A g \in Groups : SameDict(bom_structure[g], intent_structure[g]))
        => /\ pc # "raised"
           /\ pc \in {"missing_pass", "phantom_pass", "done"} => findings = <<>>

C1_Witness ==
    /\ ReconDone
    /\ \A g \in Groups : SameDict(bom_structure[g], intent_structure[g])
    /\ \E g \in Groups : /\ Len(bom_structure[g]) = 2
                         /\ Keys(bom_structure[g]) # Keys(intent_structure[g])
    /\ \A g \in Groups : bom_structure[g] # <<>>

\* C2: a BOM that is short by N at one bin of one group, and equal to the
\* intent everywhere else, yields exactly the finding FAIL MISSING_LINK for
\* that bin with required = N and provided = 0.
C2_UnderReportOneMissing ==
    \A g \in Groups : \A b \in KeySet(bom_structure[g]) :
        (/\ mode = "reconcile"
         /\ OnlyBinDiffers(g, b)
         /\ Get(bom_structure[g], b) < Get(intent_structure[g], b))
            => /\ pc # "raised"
               /\ pc = "done" =>
                    findings = <<Finding("FAIL", "MISSING_LINK", g, None, None, b,
                                         Get(intent_structure[g], b) - Get(bom_structure[g], b),
                                         0)>>

C2_Witness ==
    /\ ReconDone
    /\ \E g \in Groups : \E b \in KeySet(bom_structure[g]) :
           /\ OnlyBinDiffers(g, b)
           /\ Get(bom_structure[g], b) < Get(intent_structure[g], b)
           /\ Len(findings) = 1 /\ findings[1].code = "MISSING_LINK"

\* C3: a BOM that is over by N at one bin of one group, and equal to the
\* intent everywhere else, yields exactly the finding WARN PHANTOM_ITEM for
\* that bin with required = 0 and provided = N.
C3_OverReportOnePhantom ==
    \A g \in Groups : \A b \in KeySet(bom_structure[g]) :
        (/\ mode = "reconcile"
         /\ OnlyBinDiffers(g, b)
         /\ Get(bom_structure[g], b) > Get(intent_structure[g], b))
            => /\ pc # "raised"
               /\ pc = "done" =>
                    findings = <<Finding("WARN", "PHANTOM_ITEM", g, None, None, b, 0,
                                         Get(bom_structure[g], b) - Get(intent_structure[g], b))>>

C3_Witness ==
    /\ ReconDone
    /\ \E g \in Groups : \E b \in KeySet(bom_structure[g]) :
           /\ OnlyBinDiffers(g, b)
           /\ Get(bom_structure[g], b) > Get(intent_structure[g], b)
           /\ Len(findings) = 1 /\ findings[1].code = "PHANTOM_ITEM"

\* Group g has one BOM bin and one intent bin, different, with equal
\* quantities; every other group is the same on both sides.
SingleBinMismatch(g) ==
    /\ Len(bom_structure[g]) = 1 /\ Len(intent_structure[g]) = 1
    /\ bom_structure[g][1].bin # intent_structure[g][1].bin
    /\ bom_structure[g][1].n = intent_structure[g][1].n
    /\ \A h \in Groups \ {g} : SameDict(bom_structure[h], intent_structure[h])

\* C4: one BOM bin b against one intent bin i # b with equal quantities
\* yields exactly one finding, a bin mismatch naming b and i: WARN
\* BIN_MISMATCH_WARN iff b > i and b - i <= bin_slop_m, FAIL
\* BIN_MISMATCH_FAIL otherwise; no MISSING_LINK, no PHANTOM_ITEM.
C4_SingleBinMismatch ==
    \A g \in Groups :
        (mode = "reconcile" /\ SingleBinMismatch(g))
            => /\ pc # "raised"
               /\ pc = "done" =>
                    LET b == bom_structure[g][1].bin
                        i == intent_structure[g][1].bin
                    IN  findings =
                          <<IF b > i /\ b - i <= bin_slop_m
                            THEN Finding("WARN", "BIN_MISMATCH_WARN", g, b, i, None, None, None)
                            ELSE Finding("FAIL", "BIN_MISMATCH_FAIL", g, b, i, None, None, None)>>

C4_Witness ==
    /\ ReconDone
    /\ \E g \in Groups :
           /\ SingleBinMismatch(g)
           /\ bom_structure[g][1].bin < intent_structure[g][1].bin
           /\ intent_structure[g][1].bin - bom_structure[g][1].bin <= bin_slop_m
           /\ Len(findings) = 1 /\ findings[1].code = "BIN_MISMATCH_FAIL"

(***************************************************************************)
(* Geometry and media selection                                            *)
(***************************************************************************)
\* Resolution of the distances (1/DistScale m) and of the slack factors
\* (1/SlackScale); a slack-adjusted distance is in 1/AdjScale m.
DistScale == 2

SlackScale == 10

AdjScale == DistScale * SlackScale

\* Longest base distance drawn, in metres.
MaxDistM == 12

Distances == 0..(MaxDistM * DistScale)

\* Slack factors 1.0 and 1.2 (1.2 is the default).
SlackFactors == {SlackScale, (SlackScale * 6) \div 5}

\* Bin lists in every order, and the list build_network_links passes.
BinLists == (InjSeqs({3, 5, 10}) \ {<<>>}) \cup {<<1, 2, 3, 5, 7, 10>>}

LinkTypes == {"25G", "100G", "RJ45", "10G"}

DacMaxValues == {3, 5, 12}

\* The fixed AOC tier boundary of select_cable_type_and_bin, in metres.
AocMaxM == 10

\* apply_slack: distance_m * slack_factor.
apply_slack(d, s) == d * s

\* distance_m <= b, for a slack-adjusted distance a and a bin of b metres.
Fits(a, b) == a <= b * AdjScale

RECURSIVE Insert(_, _)
Insert(x, s) ==
    IF s = <<>> THEN <<x>>
    ELSE IF x <= Head(s) THEN <<x>> \o s ELSE <<Head(s)>> \o Insert(x, Tail(s))

\* sorted(bins)
RECURSIVE sorted(_)
sorted(s) == IF s = <<>> THEN <<>> ELSE Insert(Head(s), sorted(Tail(s)))

\* max(bins)
max(s) == CHOOSE x \in {s[i] : i \in 1..Len(s)} : \A i \in 1..Len(s) : s[i] <= x

RECURSIVE FirstFit(_, _)
FirstFit(a, s) ==
    IF s = <<>> THEN None
    ELSE IF Fits(a, Head(s)) THEN Head(s) ELSE FirstFit(a, Tail(s))

\* The first bin of the list as given, without sorting it.
select_length_bin_unsorted(a, bins_m) == FirstFit(a, bins_m)

\* common.select_length_bin: the first bin of sorted(bins) that fits, or None.
select_length_bin(a, bins_m) == FirstFit(a, sorted(bins_m))

\* The bin left alone when nothing fits.
BinOrLargestNoClamp(selected_bin, bins_m) == selected_bin

\* "if selected_bin is None: selected_bin = max(length_bins_m)"
BinOrLargest(selected_bin, bins_m) ==
    IF selected_bin = None THEN max(bins_m) ELSE selected_bin

\* cross_validate._select_length_bin: as select_length_bin, but the largest
\* bin when no bin is large enough.
intent_select_length_bin(a, bins) == BinOrLargest(FirstFit(a, sorted(bins)), bins)

MediaOf(lt) == IF lt = "25G" THEN "SFP28 25G" ELSE "QSFP28 100G"

\* The labels of a media rule (the defaults of the dict-based calculator).
Label(lt, tier) ==
    IF tier = "dac" THEN MediaOf(lt) \o " DAC"
    ELSE IF tier = "aoc" THEN MediaOf(lt) \o " AOC"
    ELSE IF lt = "25G" THEN MediaOf(lt) \o " MMF + SR" ELSE MediaOf(lt) \o " MMF + SR4"

\* "adjusted_distance <= dac_max"
WithinDacStrict(a, dac_max) == a < dac_max * AdjScale

WithinDac(a, dac_max) == a <= dac_max * AdjScale

\* "adjusted_distance <= 10"
WithinAoc(a) == a <= AocMaxM * AdjScale

\* The tier of the if / elif / else of a 25G or 100G link.
Tier(a, dac_max) ==
    IF WithinDac(a, dac_max) THEN "dac" ELSE IF WithinAoc(a) THEN "aoc" ELSE "fiber"

Returned(cable_type, bin) == [raised |-> FALSE, cable_type |-> cable_type, bin |-> bin]

Raised == [raised |-> TRUE, cable_type |-> "", bin |-> None]

\* common.select_cable_type_and_bin (typed policy).  A media rule without
\* labels has labels = None, and MediaLabels has no attribute rj45: both
\* reads raise AttributeError.
select_cable_type_and_bin(d, lt, s, dac_max, has_labels, bins_m) ==
    LET adjusted_distance == apply_slack(d, s)
        selected_bin == BinOrLargest(select_length_bin(adjusted_distance, bins_m), bins_m)
    IN  IF lt \in {"25G", "100G"}
        THEN IF has_labels
             THEN Returned(Label(lt, Tier(adjusted_distance, dac_max)), selected_bin)
             ELSE Raised
        ELSE IF lt = "RJ45" THEN Raised
        ELSE Returned("Unknown " \o lt, selected_bin)

\* cabling._select_cable_type_and_bin (dict policy): every label has a default.
legacy_select_cable_type_and_bin(d, lt, s, dac_max, bins_m) ==
    LET adjusted_distance == apply_slack(d, s)
        selected_bin == BinOrLargest(select_length_bin(adjusted_distance, bins_m), bins_m)
    IN  IF lt \in {"25G", "100G"}
        THEN Returned(Label(lt, Tier(adjusted_distance, dac_max)), selected_bin)
        ELSE IF lt = "RJ45" THEN Returned("RJ45 Cat6A", selected_bin)
        ELSE Returned("Unknown " \o lt, selected_bin)

InitGeom ==
    /\ mode = "geometry"
    /\ pc = "start"
    /\ distance_m \in Distances
    /\ slack_factor \in SlackFactors
    /\ length_bins_m \in BinLists
    /\ link_type \in LinkTypes
    /\ dac_max_m \in DacMaxValues
    /\ labels_set \in BOOLEAN
    /\ called = "" /\ result = Idle
    /\ findings = <<>>
    /\ ReconIdle /\ ValidationIdle /\ OrchIdle
    /\ PassIdle /\ BomIdle

GeomInputs == <<distance_m, slack_factor, length_bins_m, link_type, dac_max_m, labels_set>>

\* select_length_bin(apply_slack(distance, slack_factor), bins)
CallSelectLengthBin ==
    /\ mode = "geometry" /\ pc = "start"
    /\ called' = "select_length_bin"
    /\ result' = Returned("", select_length_bin(apply_slack(distance_m, slack_factor),
                                                 length_bins_m))
    /\ pc' = "returned"
    /\ UNCHANGED <<mode, findings, GeomInputs, reconVars, validationVars, orchVars,
                   passVars, bomVars>>

\* _select_length_bin(distance * slack_factor, bins) of the intent derivation
CallIntentSelectLengthBin ==
    /\ mode = "geometry" /\ pc = "start"
    /\ called' = "_select_length_bin"
    /\ result' = Returned("", intent_select_length_bin(apply_slack(distance_m, slack_factor),
                                                        length_bins_m))
    /\ pc' = "returned"
    /\ UNCHANGED <<mode, findings, GeomInputs, reconVars, validationVars, orchVars,
                   passVars, bomVars>>

CallSelectCableTypeAndBin ==
    /\ mode = "geometry" /\ pc = "start"
    /\ called' = "select_cable_type_and_bin"
    /\ result' = select_cable_type_and_bin(distance_m, link_type, slack_factor, dac_max_m,
                                           labels_set, length_bins_m)
    /\ pc' = "returned"
    /\ UNCHANGED <<mode, findings, GeomInputs, reconVars, validationVars, orchVars,
                   passVars, bomVars>>

CallLegacySelectCableTypeAndBin ==
    /\ mode = "geometry" /\ pc = "start"
    /\ called' = "_select_cable_type_and_bin"
    /\ result' = legacy_select_cable_type_and_bin(distance_m, link_type, slack_factor,
                                                  dac_max_m, length_bins_m)
    /\ pc' = "returned"
    /\ UNCHANGED <<mode, findings, GeomInputs, reconVars, validationVars, orchVars,
                   passVars, bomVars>>

NextGeom ==
    \/ CallSelectLengthBin
    \/ CallIntentSelectLengthBin
    \/ CallSelectCableTypeAndBin
    \/ CallLegacySelectCableTypeAndBin

SpecGeom == InitGeom /\ [][NextGeom]_vars

(***************************************************************************)
(* Properties of the geometry and media selection                          *)
(***************************************************************************)
GeomReturned(f) == mode = "geometry" /\ pc = "returned" /\ called = f

BinSet == {length_bins_m[i] : i \in 1..Len(length_bins_m)}

\* The slack-adjusted distance of the state, in 1/AdjScale m.
Adjusted == distance_m * slack_factor

NothingFits == \A b \in BinSet : Adjusted > b * AdjScale

\* C5: select_length_bin returns the smallest bin b with d <= b for a bin
\* list in any order, None iff d exceeds the largest bin, the bin itself
\* when d equals a bin, and is monotone in d.
C5_SelectLengthBin ==
    GeomReturned("select_length_bin") =>
        /\ (result.bin = None) <=> NothingFits
        /\ result.bin # None =>
              /\ result.bin \in BinSet
              /\ Adjusted <= result.bin * AdjScale
              /\ \A b \in BinSet : Adjusted <= b * AdjScale => result.bin <= b
        /\ \A b \in BinSet : Adjusted = b * AdjScale => result.bin = b
        /\ \A d2 \in Distances :
              LET later == select_length_bin(d2 * slack_factor, length_bins_m)
              IN  (distance_m <= d2 /\ result.bin # None /\ later # None)
                      => result.bin <= later

C5_Witness ==
    /\ GeomReturned("select_length_bin")
    /\ Len(length_bins_m) = 3
    /\ length_bins_m[1] > length_bins_m[2]
    /\ result.bin = length_bins_m[2]
    /\ Adjusted = result.bin * AdjScale

BinAssigners ==
    {"select_cable_type_and_bin", "_select_cable_type_and_bin", "_select_length_bin"}

\* C6 as stated: an operation that assigns a bin to a link never puts a bin
\* in the place of "no bin fits".
C6_NeverClamped ==
    (/\ mode = "geometry" /\ pc = "returned"
     /\ called \in BinAssigners /\ ~result.raised
     /\ NothingFits)
        => result.bin = None

\* C6 as amended: when no bin fits, select_length_bin itself returns None,
\* and the operations that assign a bin to a link return the largest bin of
\* the list and no other.
C6_ClampedToLargestOnly ==
    (mode = "geometry" /\ pc = "returned" /\ NothingFits)
        => /\ called = "select_length_bin" => result.bin = None
           /\ (called \in BinAssigners /\ ~result.raised)
                  => /\ result.bin \in BinSet
                     /\ \A b \in BinSet : b <= result.bin

C6_Witness ==
    /\ GeomReturned("select_cable_type_and_bin")
    /\ NothingFits
    /\ ~result.raised
    /\ result.bin = 10
    /\ length_bins_m[1] = 10 /\ Len(length_bins_m) = 3

\* C7: for a 25G or 100G link select_cable_type_and_bin classifies the
\* slack-adjusted distance a: the DAC label iff a <= dac_max_m, the AOC
\* label iff dac_max_m < a <= 10, the fiber label iff a > dac_max_m and
\* a > 10; a = dac_max_m is DAC.
C7_CableTypeTiers ==
    (GeomReturned("select_cable_type_and_bin") /\ link_type \in {"25G", "100G"})
        => /\ labels_set => ~result.raised
           /\ ~result.raised =>
                /\ result.cable_type \in {Label(link_type, "dac"), Label(link_type, "aoc"),
                                          Label(link_type, "fiber")}
                /\ (result.cable_type = Label(link_type, "dac"))
                       <=> Adjusted <= dac_max_m * AdjScale
                /\ (result.cable_type = Label(link_type, "aoc"))
                       <=> (dac_max_m * AdjScale < Adjusted /\ Adjusted <= 10 * AdjScale)
                /\ (result.cable_type = Label(link_type, "fiber"))
                       <=> (Adjusted > dac_max_m * AdjScale /\ Adjusted > 10 * AdjScale)

C7_Witness ==
    /\ GeomReturned("select_cable_type_and_bin")
    /\ link_type = "25G"
    /\ slack_factor > SlackScale
    /\ Adjusted = dac_max_m * AdjScale
    /\ result.cable_type = "SFP28 25G DAC"

(***************************************************************************)
(* The lengths pass: validate_lengths                                      *)
(***************************************************************************)
\* A validation finding; the context keys a finding lacks are None / "".
VFinding(severity, code, node_id, rack_id, dist, bin, media_class) ==
    [severity |-> severity, code |-> code, node_id |-> node_id, rack_id |-> rack_id,
     distance_m |-> dist, bin |-> bin, media_class |-> media_class]

\* site is None (no site.yaml).
NoSite == [is_none |-> TRUE, racks |-> <<>>]

\* A grid position that is None.
NoGrid == <<>>

SiteRack(id, grid) == [id |-> id, grid |-> grid]

Sites ==
    {NoSite} \cup
    {[is_none |-> FALSE, racks |-> <<SiteRack("rack-1", g1), SiteRack("rack-2", g2)>>] :
        g1 \in {NoGrid, <<0, 0>>, <<6, 6>>}, g2 \in {NoGrid, <<2, 1>>}}

TopologyRack(id) == [rack_id |-> id]

Topologies ==
    {[racks |-> <<TopologyRack("rack-1")>>],
     [racks |-> <<TopologyRack("rack-1"), TopologyRack("rack-2")>>]}

Nic(t) == [type |-> t]

NicLists == {<<>>, <<Nic("SFP28")>>, <<Nic("RJ45")>>, <<Nic("SFP28"), Nic("RJ45")>>,
             <<Nic("QSFP28")>>}

Node(id, rack_id, nics) == [id |-> id, rack_id |-> rack_id, nics |-> nics]

NodeLists ==
    {<<>>} \cup
    {<<Node("node-1", "rack-1", n1)>> : n1 \in NicLists} \cup
    {<<Node("node-1", "rack-1", n1), Node("node-2", "rack-2", n2)>> :
        n1 \in NicLists, n2 \in {<<Nic("RJ45")>>, <<Nic("SFP28")>>}}

MediaRule(dac_max, bins) == [dac_max_m |-> dac_max, bins_m |-> bins]

\* Policies as _load_policy returns them: every section of the built-in
\* defaults is present; rj45_bins is rj45_cat6a's bins_m, [] when unset;
\* media_rules_is_dict tells whether media_rules is still a mapping.
\* Distances are in 1/DistScale m, the slack factor in 1/SlackScale.
Policies ==
    {[same_rack_leaf_to_node_m |-> 2 * DistScale,
      slack_factor |-> sf,
      tile_m |-> 1,
      media_rules_is_dict |-> TRUE,
      sfp28_25g |-> MediaRule(sd, sb),
      qsfp28_100g |-> MediaRule(3, qb),
      rj45_bins |-> rb] :
        sf \in SlackFactors,
        sd \in {2, 3},
        sb \in {<<1, 3, 5>>, <<1, 2>>},
        qb \in {<<1, 3, 5, 10>>, <<1, 3>>},
        rb \in {<<>>, <<1, 3, 5>>, <<1, 2>>, <<150>>}}

\* The threshold of RJ45_BIN_GT_100M, in metres.
Rj45MaxM == 100

\* "if not site"
SiteMissing(s) == s.is_none

SiteGeometryMissingAsWarn ==
    VFinding("WARN", "SITE_GEOMETRY_MISSING", "", "", None, None, "")

\* Lines 420-425.
SiteGeometryMissing ==
    VFinding("INFO", "SITE_GEOMETRY_MISSING", "", "", None, None, "")

\* rack_positions = {rack.id: rack.grid for rack in site.racks if rack.grid}
HasPosition(s, rack_id) ==
    \E i \in 1..Len(s.racks) : s.racks[i].id = rack_id /\ s.racks[i].grid # NoGrid

\* The dict keeps the last rack of an id.
PositionOf(s, rack_id) ==
    LET k == CHOOSE i \in 1..Len(s.racks) :
                 /\ s.racks[i].id = rack_id /\ s.racks[i].grid # NoGrid
                 /\ \A j \in (i + 1)..Len(s.racks) :
                        ~(s.racks[j].id = rack_id /\ s.racks[j].grid # NoGrid)
    IN  s.racks[k].grid

\* compute_rack_distance_m(grid_a, grid_b, tile_m), in 1/DistScale m.
compute_rack_distance_m(grid_a, grid_b, tile) ==
    (Abs(grid_a[1] - grid_b[1]) + Abs(grid_a[2] - grid_b[2])) * tile * DistScale

InRack(n, rack_id) == n.rack_id = rack_id

\* nodes_by_rack.get(rack.rack_id, [])
NodesOfRack(ns, rack_id) == SelectSeq(ns, LAMBDA n : InRack(n, rack_id))

\* The NICs the two node loops visit, in the loops' order: for each topology
\* rack, for each of its nodes, for each NIC.
RECURSIVE NicsOfNode(_, _, _)
NicsOfNode(rack_id, n, i) ==
    IF i > Len(n.nics) THEN <<>>
    ELSE <<[rack_id |-> rack_id, node_id |-> n.id, type |-> n.nics[i].type]>>
         \o NicsOfNode(rack_id, n, i + 1)

RECURSIVE NicsOfNodes(_, _, _)
NicsOfNodes(rack_id, ns, i) ==
    IF i > Len(ns) THEN <<>>
    ELSE NicsOfNode(rack_id, ns[i], 1) \o NicsOfNodes(rack_id, ns, i + 1)

RECURSIVE NicVisits(_, _, _)
NicVisits(t, ns, i) ==
    IF i > Len(t.racks) THEN <<>>
    ELSE NicsOfNodes(t.racks[i].rack_id, NodesOfRack(ns, t.racks[i].rack_id), 1)
         \o NicVisits(t, ns, i + 1)

\* Lines 460-491 and 513-542: the finding, if any, of one optical link of
\* slack-adjusted length a under media rule r.
OpticalFinding(node_id, rack_id, a, r, media_class) ==
    LET selected_bin == select_length_bin(a, r.bins_m) IN
    IF selected_bin = None
    THEN <<VFinding("FAIL", "LENGTH_EXCEEDS_MAX_BIN", node_id, rack_id, a,
                    max(r.bins_m), media_class)>>
    ELSE IF a > r.dac_max_m * AdjScale
         THEN IF \A i \in 1..Len(r.bins_m) : ~(r.bins_m[i] > r.dac_max_m)
              THEN <<VFinding("FAIL", "LENGTH_EXCEEDS_DAC_NO_AOC_BINS", node_id, rack_id, a,
                              selected_bin, media_class)>>
              ELSE <<>>
         ELSE <<>>

\* Lines 441-491: leaf -> node lengths.
RECURSIVE LeafNodeLengths(_, _, _)
LeafNodeLengths(visits, p, i) ==
    IF i > Len(visits) THEN <<>>
    ELSE (IF visits[i].type = "SFP28"
          THEN OpticalFinding(visits[i].node_id, visits[i].rack_id,
                              apply_slack(p.same_rack_leaf_to_node_m, p.slack_factor),
                              p.sfp28_25g, "SFP28")
          ELSE <<>>)
         \o LeafNodeLengths(visits, p, i + 1)

\* Lines 493-542: leaf -> spine lengths, the spine at (0, 0).
RECURSIVE LeafSpineLengths(_, _, _, _)
LeafSpineLengths(t, s, p, i) ==
    IF i > Len(t.racks) THEN <<>>
    ELSE (IF HasPosition(s, t.racks[i].rack_id)
          THEN OpticalFinding("", t.racks[i].rack_id,
                              apply_slack(compute_rack_distance_m(
                                              PositionOf(s, t.racks[i].rack_id), <<0, 0>>,
                                              p.tile_m),
                                          p.slack_factor),
                              p.qsfp28_100g, "QSFP28")
          ELSE <<>>)
         \o LeafSpineLengths(t, s, p, i + 1)

\* slack_factor is a local that only lines 453 and 506 assign.
SlackFactorBound(t, s, visits) ==
    \/ \E i \in 1..Len(visits) : visits[i].type = "SFP28"
    \/ \E i \in 1..Len(t.racks) : HasPosition(s, t.racks[i].rack_id)

\* Lines 556-589 for one RJ45 NIC: the finding, if any, or the exception
\* (max() of an empty bin list raises ValueError).
Rj45Length(v, p) ==
    LET mgmt_distance == apply_slack(p.same_rack_leaf_to_node_m, p.slack_factor)
        selected_bin == select_length_bin(mgmt_distance, p.rj45_bins)
    IN  IF selected_bin # None /\ selected_bin > Rj45MaxM
        THEN [raised |-> FALSE,
              f |-> <<VFinding("WARN", "RJ45_BIN_GT_100M", v.node_id, v.rack_id,
                               mgmt_distance, selected_bin, "RJ45")>>]
        ELSE IF selected_bin = None
             THEN IF p.rj45_bins = <<>>
                  THEN [raised |-> TRUE, f |-> <<>>]
                  ELSE [raised |-> FALSE,
                        f |-> <<VFinding("FAIL", "LENGTH_EXCEEDS_MAX_BIN", v.node_id,
                                         v.rack_id, mgmt_distance, max(p.rj45_bins), "RJ45")>>]
             ELSE [raised |-> FALSE, f |-> <<>>]

\* Lines 544-589: RJ45 lengths.  Reading slack_factor when no line assigned
\* it raises UnboundLocalError.
RECURSIVE Rj45Lengths(_, _, _, _)
Rj45Lengths(visits, p, bound, i) ==
    IF i > Len(visits) THEN [raised |-> FALSE, f |-> <<>>]
    ELSE IF visits[i].type = "RJ45"
         THEN IF ~bound THEN [raised |-> TRUE, f |-> <<>>]
              ELSE LET one == Rj45Length(visits[i], p)
                       rest == Rj45Lengths(visits, p, bound, i + 1)
                   IN  IF one.raised \/ rest.raised THEN [raised |-> TRUE, f |-> <<>>]
                       ELSE [raised |-> FALSE, f |-> one.f \o rest.f]
         ELSE Rj45Lengths(visits, p, bound, i + 1)

\* validate_lengths(topology, tors, nodes, site, policy): the findings, or
\* raised when an exception leaves the function.
validate_lengths(t, ns, s, p) ==
    IF SiteMissing(s) THEN [raised |-> FALSE, f |-> <<SiteGeometryMissing>>]
    ELSE LET visits == NicVisits(t, ns, 1)
             rj45 == Rj45Lengths(visits, p, SlackFactorBound(t, s, visits), 1)
         IN  IF rj45.raised THEN [raised |-> TRUE, f |-> <<>>]
             ELSE [raised |-> FALSE,
                   f |-> LeafNodeLengths(visits, p, 1) \o LeafSpineLengths(t, s, p, 1)
                         \o rj45.f]

InitLengths ==
    /\ mode = "lengths"
    /\ pc = "start"
    /\ topology \in Topologies
    /\ nodes \in NodeLists
    /\ site \in Sites
    /\ policy \in Policies
    /\ findings = <<>>
    /\ ReconIdle /\ GeomIdle /\ OrchIdle
    /\ PassIdle /\ BomIdle

\* One call of validate_lengths.
ValidateLengths ==
    /\ mode = "lengths" /\ pc = "start"
    /\ LET r == validate_lengths(topology, nodes, site, policy)
       IN  /\ findings' = r.f
           /\ pc' = IF r.raised THEN "raised" ELSE "returned"
    /\ UNCHANGED <<mode, validationVars, reconVars, geomVars, orchVars,
                   passVars, bomVars>>

NextLengths == ValidateLengths

SpecLengths == InitLengths /\ [][NextLengths]_vars

\* C8: with no site geometry validate_lengths returns exactly one finding,
\* INFO SITE_GEOMETRY_MISSING, and so no FAIL and no WARN, whatever the
\* topology, nodes and policy are.
C8_NoSiteOnlyInfo ==
    (mode = "lengths" /\ pc # "start" /\ site = NoSite)
        => /\ pc = "returned"
           /\ Len(findings) = 1
           /\ findings[1].severity = "INFO"
           /\ findings[1].code = "SITE_GEOMETRY_MISSING"
           /\ \A i \in 1..Len(findings) : findings[i].severity \notin {"FAIL", "WARN"}

\* No site, a policy whose SFP28 and RJ45 bins are all shorter than the
\* same-rack distance, and nodes with SFP28 and RJ45 NICs.
C8_Witness ==
    /\ mode = "lengths" /\ pc = "returned" /\ site = NoSite
    /\ policy.sfp28_25g.bins_m = <<1, 2>> /\ policy.rj45_bins = <<1, 2>>
    /\ policy.slack_factor > SlackScale
    /\ Len(nodes) = 2 /\ Len(nodes[1].nics) = 2
    /\ findings = <<SiteGeometryMissing>>

(***************************************************************************)
(* The validation orchestrator: run_cabling_validation                     *)
(***************************************************************************)
\* What can be wrong with an input file: it does not exist, it is not YAML,
\* it is an empty document, or it parses but violates the schema.
FileStates == {"ok", "missing", "malformed", "empty", "schema"}

\* policy_path may also be None.
PolicyFileStates == FileStates \cup {"none"}

Value(v) == [raised |-> FALSE, exc |-> "", value |-> v]

Raise(e) == [raised |-> TRUE, exc |-> e, value |-> Idle]

\* _read_yaml
read_yaml(state, data) ==
    IF state = "missing" THEN Raise("FileNotFoundError")
    ELSE IF state \in {"malformed", "empty"} THEN Raise("ValueError")
    ELSE Value(data)

\* load_topology, load_tors and load_nodes: a ValidationError becomes a
\* ValueError.
load_manifest(state, data) ==
    IF read_yaml(state, data).raised THEN read_yaml(state, data)
    ELSE IF state = "schema" THEN Raise("ValueError")
    ELSE Value(data)

\* load_site: a missing file is None, not an error.
load_site(state, data) ==
    IF state = "missing" THEN Value(NoSite)
    ELSE load_manifest(state, data)

\* The built-in defaults of _load_policy (lines 60-101); they hold no tile_m,
\* which validate_lengths reads as 1.0.
DefaultPolicy ==
    [same_rack_leaf_to_node_m |-> 2 * DistScale,
     slack_factor |-> (SlackScale * 6) \div 5,
     tile_m |-> 1,
     media_rules_is_dict |-> TRUE,
     sfp28_25g |-> MediaRule(3, <<1, 3, 5, 10, 30>>),
     qsfp28_100g |-> MediaRule(3, <<1, 3, 5, 10, 30>>),
     rj45_bins |-> <<1, 3, 5, 10, 30, 100>>]

\* The policy file that violates the schema: a mapping whose media_rules is
\* not a mapping; line 112 stores that value over the default.
SchemaViolatingPolicy == [DefaultPolicy EXCEPT !.media_rules_is_dict = FALSE]

\* _load_policy: only FileNotFoundError is caught (line 113).  yaml.safe_load
\* raises YAMLError on malformed text; an empty document loads as None, whose
\* .items() raises AttributeError.  data is the file's content merged over
\* the defaults.
load_policy(state, data) ==
    IF state \in {"none", "missing"} THEN Value(DefaultPolicy)
    ELSE IF state = "malformed" THEN Raise("YAMLError")
    ELSE IF state = "empty" THEN Raise("AttributeError")
    ELSE IF state = "schema" THEN Value(SchemaViolatingPolicy)
    ELSE Value(data)

\* validate_policy_sanity, as far as it can raise: line 663 calls .items()
\* on media_rules.  Its findings are part of pass_findings.
policy_sanity_raises(p) == ~p.media_rules_is_dict

DataLoadError(file, exc) ==
    [severity |-> "FAIL", code |-> "DATA_LOAD_ERROR", error |-> <<file, exc>>]

\* Lines 892-900.
DataLoadErrorReport(file, exc) ==
    [summary |-> [pass |-> 0, warn |-> 0, fail |-> 1],
     findings |-> <<DataLoadError(file, exc)>>]

IsSeverity(f, severity) == f.severity = severity

CountSeverity(f, severity) == Len(SelectSeq(f, LAMBDA x : IsSeverity(x, severity)))

Max2(a, b) == IF a >= b THEN a ELSE b

\* Lines 914-926.
Report(t, ns, all_findings) ==
    LET warn == CountSeverity(all_findings, "WARN")
        fail == CountSeverity(all_findings, "FAIL")
        total_possible_checks == Len(t.racks) * 4 + Len(ns) * 2 + 10
    IN  [summary |-> [pass |-> Max2(0, total_possible_checks - warn - fail),
                      warn |-> warn,
                      fail |-> fail,
                      info |-> CountSeverity(all_findings, "INFO")],
         findings |-> all_findings]

\* Findings of the passes that run before validate_lengths (policy sanity,
\* ports, compatibility, oversubscription, completeness) and after it
\* (redundancy).  validate_ports always ends with MGMT_RJ45_UNVALIDATED.
OtherFinding(severity, code) == VFinding(severity, code, "", "", None, None, "")

PassFindings ==
    {[before |-> b, after |-> a] :
        b \in {<<OtherFinding("INFO", "MGMT_RJ45_UNVALIDATED")>>,
               <<OtherFinding("FAIL", "MISSING_TOR"),
                 OtherFinding("INFO", "MGMT_RJ45_UNVALIDATED")>>,
               <<OtherFinding("WARN", "PORT_CAPACITY_SPINE_NEAR_LIMIT"),
                 OtherFinding("INFO", "MGMT_RJ45_UNVALIDATED")>>},
        a \in {<<>>, <<OtherFinding("FAIL", "REDUNDANCY_TOR_UPLINKS")>>}}

RunNodeLists ==
    {<<>>,
     <<Node("node-1", "rack-1", <<Nic("RJ45")>>)>>,
     <<Node("node-1", "rack-1", <<Nic("SFP28"), Nic("RJ45")>>),
       Node("node-2", "rack-2", <<Nic("SFP28")>>)>>}

RunSites ==
    {[is_none |-> FALSE, racks |-> <<SiteRack("rack-1", g1), SiteRack("rack-2", <<2, 1>>)>>] :
        g1 \in {NoGrid, <<6, 6>>}}

RunPolicies ==
    {p \in Policies : /\ p.slack_factor > SlackScale
                      /\ p.sfp28_25g = MediaRule(3, <<1, 2>>)
                      /\ p.qsfp28_100g.bins_m = <<1, 3, 5, 10>>
                      /\ p.rj45_bins \in {<<>>, <<1, 3, 5>>}}

\* Every loader of run_cabling_validation returns.
RunLoads(f) ==
    /\ ~load_policy(f.policy, Idle).raised
    /\ \A m \in {"topology", "tors", "nodes"} : ~load_manifest(f[m], Idle).raised
    /\ ~load_site(f.site, Idle).raised

\* What the files hold; a file that cannot be read holds nothing.
RunDisks(f) ==
    IF RunLoads(f)
    THEN {[topology |-> t, nodes |-> ns, site |-> s, policy |-> p] :
            t \in Topologies, ns \in RunNodeLists,
            s \in IF f.site = "ok" THEN RunSites ELSE {Idle},
            p \in IF f.policy = "ok" THEN RunPolicies ELSE {Idle}}
    ELSE {[topology |-> Idle, nodes |-> Idle, site |-> Idle, policy |-> Idle]}

InitRun ==
    /\ mode = "run"
    /\ pc = "start"
    /\ files \in [policy : PolicyFileStates, topology : FileStates, tors : FileStates,
                  nodes : FileStates, site : FileStates]
    /\ disk \in RunDisks(files)
    /\ pass_findings \in IF RunLoads(files) THEN PassFindings
                         ELSE {[before |-> <<>>, after |-> <<>>]}
    /\ loaders = "network_loader"
    /\ report = Idle
    /\ findings = <<>>
    /\ ReconIdle /\ GeomIdle /\ ValidationIdle
    /\ PassIdle /\ BomIdle

\* Line 874: policy = _load_policy(policy_path), outside the try.
RunLoadPolicy ==
    /\ mode = "run" /\ pc = "start"
    /\ LET r == load_policy(files.policy, disk.policy)
       IN  /\ policy' = r.value
           /\ pc' = IF r.raised THEN "raised" ELSE "policy_loaded"
    /\ UNCHANGED <<mode, findings, topology, nodes, site, reconVars, geomVars, orchVars,
                   passVars, bomVars>>

\* Lines 877-900: the loaders in the try, and the except branch.
RunLoadData ==
    /\ mode = "run" /\ pc = "policy_loaded"
    /\ LET t == load_manifest(files.topology, disk.topology)
           tr == load_manifest(files.tors, Idle)
           ns == load_manifest(files.nodes, disk.nodes)
           s == load_site(files.site, disk.site)
       IN  IF t.raised \/ tr.raised \/ ns.raised \/ s.raised
           THEN /\ report' = (IF t.raised THEN DataLoadErrorReport("topology", t.exc)
                              ELSE IF tr.raised THEN DataLoadErrorReport("tors", tr.exc)
                              ELSE IF ns.raised THEN DataLoadErrorReport("nodes", ns.exc)
                              ELSE DataLoadErrorReport("site", s.exc))
                /\ pc' = "returned"
                /\ UNCHANGED <<topology, nodes, site,
                   passVars, bomVars>>
           ELSE /\ topology' = t.value /\ nodes' = ns.value /\ site' = s.value
                /\ pc' = "data_loaded"
                /\ UNCHANGED report
    /\ UNCHANGED <<mode, findings, policy, reconVars, geomVars, files, disk, loaders,
                   pass_findings,
                   passVars, bomVars>>

\* Lines 902-926: the seven passes, in order, and the summary.
RunChecks ==
    /\ mode = "run" /\ pc = "data_loaded"
    /\ LET lengths == IF policy_sanity_raises(policy) THEN [raised |-> TRUE, f |-> <<>>]
                      ELSE validate_lengths(topology, nodes, site, policy)
       IN  IF lengths.raised
           THEN pc' = "raised" /\ UNCHANGED <<findings, report,
                   passVars, bomVars>>
           ELSE /\ findings' = pass_findings.before \o lengths.f \o pass_findings.after
                /\ report' = Report(topology, nodes, findings')
                /\ pc' = "returned"
    /\ UNCHANGED <<mode, validationVars, reconVars, geomVars, files, disk, loaders,
                   pass_findings,
                   passVars, bomVars>>

NextRun == RunLoadPolicy \/ RunLoadData \/ RunChecks

SpecRun == InitRun /\ [][NextRun]_vars

\* A loader of run_cabling_validation raises on these files.
RunLoadFailure(f) == ~RunLoads(f)

IsDataLoadErrorReport(r) ==
    /\ Len(r.findings) = 1
    /\ r.findings[1].severity = "FAIL"
    /\ r.findings[1].code = "DATA_LOAD_ERROR"
    /\ r.summary.fail = 1

\* C9: run_cabling_validation never lets an exception escape, and when the
\* load of any input fails (topology, ToRs, nodes, site or the policy file)
\* it returns a Report whose only finding is FAIL DATA_LOAD_ERROR, with
\* summary fail = 1.
C9_NeverRaisesDataLoadError ==
    mode = "run"
        => /\ pc # "raised"
           /\ (pc = "returned" /\ RunLoadFailure(files)) => IsDataLoadErrorReport(report)

\* What the try block does guarantee: a failing manifest loader, once the
\* policy has loaded, gives the DATA_LOAD_ERROR report.
RunManifestFailureReported ==
    (mode = "run" /\ pc = "returned" /\ RunLoadFailure(files))
        => IsDataLoadErrorReport(report)

\* The exception of the policy loader leaves run_cabling_validation.
RunPolicyErrorEscapes ==
    /\ mode = "run" /\ pc = "raised"
    /\ files.policy \in {"malformed", "empty"}
    /\ report = Idle

(***************************************************************************)
(* The cross-validation orchestrator: cross_validate_bom                   *)
(***************************************************************************)
\* The keys _normalize_bom_to_class_structure reads from every item.
RequiredKeys == {"class", "cable_type", "length_bin_m", "quantity"}

\* A BOM item; keys is the set of keys the item has.
Item(g, length_bin_m, quantity, keys) ==
    [class |-> g[1], cable_type |-> g[2], length_bin_m |-> length_bin_m,
     quantity |-> quantity, keys |-> keys]

BinsOfGroup(g) == IF g[1] = "leaf-node" THEN LeafNodeBins ELSE {7}

Items ==
    UNION {{Item(g, b, q, RequiredKeys) : b \in BinsOfGroup(g), q \in 1..MaxQty} :
           g \in Groups}

ItemsLackingAKey ==
    {Item(<<"leaf-node", "sfp28_25g">>, 3, 1, RequiredKeys \ {k}) : k \in RequiredKeys}

\* The "items" lists of the BOM files: at most two items.
ItemLists ==
    {<<>>} \cup {<<i>> : i \in Items \cup ItemsLackingAKey}
           \cup {<<i, j>> : i \in Items, j \in Items \cup ItemsLackingAKey}

EmptyStructure == [g \in Groups |-> <<>>]

\* Lines 64-79 for the items from i on: KeyError when an item lacks a key.
RECURSIVE NormalizeItems(_, _, _)
NormalizeItems(items, res, i) ==
    IF i > Len(items) THEN Value(res)
    ELSE LET item == items[i] IN
         IF ~(RequiredKeys \subseteq item.keys) THEN Raise("KeyError")
         ELSE LET g == <<item.class, item.cable_type>>
                  d == res[g]
                  n == IF HasKey(d, item.length_bin_m)
                       THEN Get(d, item.length_bin_m) + item.quantity
                       ELSE item.quantity
              IN  NormalizeItems(items, [res EXCEPT ![g] = SetItem(d, item.length_bin_m, n)],
                                 i + 1)

\* _normalize_bom_to_class_structure for a BOM in the items format; with no
\* items the legacy branch finds nothing to add.
normalize_bom_to_class_structure(items) == NormalizeItems(items, EmptyStructure, 1)

\* _load_bom_yaml: open() raises on a missing file, safe_load on malformed
\* text, and `"items" in None` on an empty document.
load_bom_yaml(state, data) ==
    IF state = "missing" THEN Raise("FileNotFoundError")
    ELSE IF state = "malformed" THEN Raise("YAMLError")
    ELSE IF state = "empty" THEN Raise("TypeError")
    ELSE Value(data)

\* load_cabling_policy: _load_yaml turns a missing, malformed or empty file
\* into {}, the defaults; a value int() or float() rejects raises.
load_cabling_policy(state) ==
    IF state = "schema" THEN Raise("ValueError") ELSE Value(Idle)

BomFileStates == {"ok", "missing", "malformed", "empty"}

CrossFileKeys == {"topology", "tors", "nodes", "site", "policy", "bom"}

\* The files of one run: at most one of them is not readable.
CrossFiles ==
    {f \in [topology : FileStates, tors : FileStates, nodes : FileStates,
            site : FileStates, policy : FileStates, bom : BomFileStates] :
        Cardinality({k \in CrossFileKeys : f[k] # "ok"}) <= 1}

\* What the manifest loaders return: the values of network_loader (load_tors
\* a tuple, load_nodes a list), or stand-ins that have model_dump(), which do
\* not read the manifest files.
LoaderKinds == {"network_loader", "stand_in"}

\* The first loader of the try block that raises, if any.
CrossLoad(kind, f, data) ==
    LET t == load_manifest(f.topology, Idle)
        tr == load_manifest(f.tors, Idle)
        ns == load_manifest(f.nodes, Idle)
        s == load_site(f.site, Idle)
        p == load_cabling_policy(f.policy)
        b == load_bom_yaml(f.bom, data)
    IN  IF kind = "network_loader" /\ t.raised THEN t
        ELSE IF kind = "network_loader" /\ tr.raised THEN tr
        ELSE IF kind = "network_loader" /\ ns.raised THEN ns
        ELSE IF kind = "network_loader" /\ s.raised THEN s
        ELSE IF kind = "network_loader" /\ p.raised THEN p
        ELSE b

\* The intent structures _aggregate_intent_to_class_structure yields here.
CrossIntents ==
    {s \in Structures : /\ s[<<"leaf-spine", "qsfp28_100g">>] = <<>>
                        /\ Len(s[<<"leaf-node", "sfp28_25g">>]) <= 1}

CrossDisks(kind, f) ==
    IF kind = "stand_in" /\ f.bom = "ok"
    THEN {[bom |-> items, intent |-> i, bin_slop_m |-> slop] :
            items \in ItemLists, i \in CrossIntents, slop \in BinSlops}
    ELSE IF f.bom = "ok"
    THEN {[bom |-> items, intent |-> EmptyStructure, bin_slop_m |-> 2] :
            items \in {l \in ItemLists : Len(l) <= 1}}
    ELSE {[bom |-> <<>>, intent |-> EmptyStructure, bin_slop_m |-> 2]}

InitCross ==
    /\ mode = "cross"
    /\ pc = "start"
    /\ loaders \in LoaderKinds
    /\ files \in CrossFiles
    /\ loaders = "stand_in" => \A k \in CrossFileKeys \ {"bom"} : files[k] = "ok"
    /\ disk \in CrossDisks(loaders, files)
    /\ pass_findings = Idle
    /\ report = Idle
    /\ findings = <<>>
    /\ bom_structure = Idle /\ intent_structure = Idle /\ bin_slop_m = Idle
    /\ group_order = Idle /\ reconciled_bom = Idle /\ reconciled_intent = Idle
    /\ GeomIdle /\ ValidationIdle
    /\ PassIdle /\ BomIdle

CrossFinding(severity, code, exc) == [severity |-> severity, code |-> code, error |-> exc]

\* Lines 438-450.
LoadErrorReport(exc) ==
    [summary |-> [missing |-> 0, phantom |-> 0, mismatched_media |-> 0,
                  mismatched_bin |-> 0, count_mismatch |-> 0],
     findings |-> <<CrossFinding("FAIL", "LOAD_ERROR", exc)>>,
     mapping_stats |-> [intent |-> EmptyStructure, bom |-> EmptyStructure]]

\* Lines 423-450: the try block and its except branch.
CrossLoadAll ==
    /\ mode = "cross" /\ pc = "start"
    /\ LET r == CrossLoad(loaders, files, disk.bom)
       IN  IF r.raised
           THEN report' = LoadErrorReport(r.exc) /\ pc' = "returned"
           ELSE UNCHANGED report /\ pc' = "loaded"
    /\ UNCHANGED <<mode, findings, reconVars, geomVars, validationVars, files, disk, loaders,
                   pass_findings,
                   passVars, bomVars>>

\* Lines 453-461: tors.model_dump() and nodes.model_dump() raise
\* AttributeError on the tuple and the list network_loader returns.
CrossDeriveIntent ==
    /\ mode = "cross" /\ pc = "loaded"
    /\ IF loaders = "network_loader"
       THEN pc' = "raised" /\ UNCHANGED intent_structure
       ELSE pc' = "derived" /\ intent_structure' = disk.intent
    /\ UNCHANGED <<mode, findings, bom_structure, bin_slop_m, group_order, reconciled_bom,
                   reconciled_intent, geomVars, validationVars, orchVars,
                   passVars, bomVars>>

\* Line 462.
CrossNormalize ==
    /\ mode = "cross" /\ pc = "derived"
    /\ LET r == normalize_bom_to_class_structure(disk.bom)
       IN  IF r.raised
           THEN pc' = "raised" /\ UNCHANGED bom_structure
           ELSE pc' = "normalized" /\ bom_structure' = r.value
    /\ UNCHANGED <<mode, findings, intent_structure, bin_slop_m, group_order, reconciled_bom,
                   reconciled_intent, geomVars, validationVars, orchVars,
                   passVars, bomVars>>

IsCode(f, codes) == f.code \in codes

CountCode(f, codes) == Len(SelectSeq(f, LAMBDA x : IsCode(x, codes)))

\* Lines 467-479.
CrossReport(f, intent, bom) ==
    [summary |-> [missing |-> CountCode(f, {"MISSING_LINK"}),
                  phantom |-> CountCode(f, {"PHANTOM_ITEM"}),
                  mismatched_media |-> CountCode(f, {"MEDIA_MISMATCH"}),
                  mismatched_bin |-> CountCode(f, {"BIN_MISMATCH_WARN", "BIN_MISMATCH_FAIL"}),
                  count_mismatch |-> CountCode(f, {"COUNT_MISMATCH"})],
     findings |-> f,
     mapping_stats |-> [intent |-> intent, bom |-> bom]]

\* Lines 465-479: _reconcile_bom_vs_intent, the summary and the report.
CrossReconcile ==
    /\ mode = "cross" /\ pc = "normalized"
    /\ group_order' \in GroupOrders
    /\ bin_slop_m' = disk.bin_slop_m
    /\ LET r == FirstPassLoop(group_order', bom_structure, intent_structure, <<>>,
                              bin_slop_m', 1)
       IN  /\ reconciled_bom' = r.RB
           /\ reconciled_intent' = r.RI
           /\ IF r.raised
              THEN pc' = "raised" /\ UNCHANGED <<findings, report,
                   passVars, bomVars>>
              ELSE /\ findings' = r.f \o MissingLoop(group_order', r.RI, 1)
                                      \o PhantomLoop(group_order', r.RB, 1)
                   /\ report' = CrossReport(findings', intent_structure, bom_structure)
                   /\ pc' = "returned"
    /\ UNCHANGED <<mode, bom_structure, intent_structure, geomVars, validationVars, files,
                   disk, loaders, pass_findings,
                   passVars, bomVars>>

NextCross == CrossLoadAll \/ CrossDeriveIntent \/ CrossNormalize \/ CrossReconcile

SpecCross == InitCross /\ [][NextCross]_vars

\* The BOM file is missing, empty or invalid, or one of its items lacks a
\* required key, or a manifest fails to load.
CrossInputInvalid ==
    \/ CrossLoad(loaders, files, disk.bom).raised
    \/ \E i \in 1..Len(disk.bom) : ~(RequiredKeys \subseteq disk.bom[i].keys)

IsLoadErrorReport(r) ==
    /\ Len(r.findings) = 1
    /\ r.findings[1].severity = "FAIL"
    /\ r.findings[1].code = "LOAD_ERROR"
    /\ \A k \in DOMAIN r.summary : r.summary[k] = 0
    /\ r.mapping_stats = [intent |-> EmptyStructure, bom |-> EmptyStructure]

\* C10: cross_validate_bom never lets an exception escape, and whenever the
\* BOM file is missing, empty or invalid (an item lacking a required key
\* included) or a manifest fails to load, it returns a CrossReport whose only
\* finding is FAIL LOAD_ERROR, with the five tallies 0 and empty
\* mapping_stats.
C10_NeverRaisesLoadError ==
    mode = "cross"
        => /\ pc # "raised"
           /\ (pc = "returned" /\ CrossInputInvalid) => IsLoadErrorReport(report)

\* What the try block does guarantee: a loader that raises gives the
\* LOAD_ERROR report.
CrossLoaderFailureReported ==
    (mode = "cross" /\ pc # "start" /\ CrossLoad(loaders, files, disk.bom).raised)
        => pc = "returned" /\ IsLoadErrorReport(report)

\* The KeyError of an item that lacks a key leaves cross_validate_bom.
CrossKeyErrorEscapes ==
    /\ mode = "cross" /\ pc = "raised" /\ loaders = "stand_in"
    /\ \E i \in 1..Len(disk.bom) : ~(RequiredKeys \subseteq disk.bom[i].keys)
    /\ report = Idle

\* With the loaders of network_loader every readable input ends in the
\* AttributeError of line 457.
CrossModelDumpEscapes ==
    /\ mode = "cross" /\ pc = "raised" /\ loaders = "network_loader"
    /\ \A k \in CrossFileKeys : files[k] = "ok"
    /\ \A i \in 1..Len(disk.bom) : RequiredKeys \subseteq disk.bom[i].keys
    /\ report = Idle

(***************************************************************************)
(* The manifest passes: validate_ports, validate_oversubscription, ...     *)
(***************************************************************************)
\* A finding whose context is a record of its own.
PassFinding(severity, code, context) ==
    [severity |-> severity, code |-> code, context |-> context]

\* TopologyRackRec, SpineRec / SpinePorts, TopologyWanRec, TopologyRec.
Rack(rack_id, tor_id, uplinks_qsfp28) ==
    [rack_id |-> rack_id, tor_id |-> tor_id, uplinks_qsfp28 |-> uplinks_qsfp28]

Spine(qsfp28_total) == [id |-> "spine-1", qsfp28_total |-> qsfp28_total]

Topology(racks, qsfp28_total, uplinks_cat6a) ==
    [racks |-> racks, spine |-> Spine(qsfp28_total), wan |-> [uplinks_cat6a |-> uplinks_cat6a]]

\* TorRec with its TorPorts.
Tor(id, rack_id, sfp28_total, qsfp28_total) ==
    [id |-> id, rack_id |-> rack_id, sfp28_total |-> sfp28_total,
     qsfp28_total |-> qsfp28_total]

\* NicRec with its count.
NicN(t, count) == [type |-> t, count |-> count]

\* tors.get(tor_id): the dict is a function from the known ids.
TorKnown(ts, tor_id) == tor_id \in DOMAIN ts

\* Lines 135-142: the SFP28 ports the nodes from i on require.
RECURSIVE NicCount(_, _, _)
NicCount(nics, types, i) ==
    IF i > Len(nics) THEN 0
    ELSE (IF nics[i].type \in types THEN nics[i].count ELSE 0) + NicCount(nics, types, i + 1)

RECURSIVE RequiredSfp28(_, _, _)
RequiredSfp28(rack_nodes, p, i) ==
    IF i > Len(rack_nodes) THEN 0
    ELSE (IF rack_nodes[i].nics # <<>>
          THEN NicCount(rack_nodes[i].nics, {"SFP28"}, 1)
          ELSE p.nodes_25g_per_node)
         + RequiredSfp28(rack_nodes, p, i + 1)

TorSfp28DeficitOffByOne(rack, required_sfp28, available_sfp28) ==
    IF required_sfp28 >= available_sfp28
    THEN <<PassFinding("FAIL", "PORT_CAPACITY_TOR_SFP28",
                       [rack_id |-> rack.rack_id, required_sfp28 |-> required_sfp28,
                        available_sfp28 |-> available_sfp28,
                        deficit |-> required_sfp28 - available_sfp28])>>
    ELSE <<>>

\* Lines 154-167.
TorSfp28Deficit(rack, required_sfp28, available_sfp28) ==
    IF required_sfp28 > available_sfp28
    THEN <<PassFinding("FAIL", "PORT_CAPACITY_TOR_SFP28",
                       [rack_id |-> rack.rack_id, required_sfp28 |-> required_sfp28,
                        available_sfp28 |-> available_sfp28,
                        deficit |-> required_sfp28 - available_sfp28])>>
    ELSE <<>>

\* Lines 131-167: ToR SFP28 ports, rack by rack.
RECURSIVE TorSfp28Ports(_, _, _, _, _)
TorSfp28Ports(t, ts, ns, p, i) ==
    IF i > Len(t.racks) THEN <<>>
    ELSE LET rack == t.racks[i]
             required_sfp28 == RequiredSfp28(NodesOfRack(ns, rack.rack_id), p, 1)
         IN  (IF ~TorKnown(ts, rack.tor_id)
              THEN <<PassFinding("FAIL", "MISSING_TOR",
                                 [rack_id |-> rack.rack_id, tor_id |-> rack.tor_id])>>
              ELSE TorSfp28Deficit(rack, required_sfp28, ts[rack.tor_id].sfp28_total))
             \o TorSfp28Ports(t, ts, ns, p, i + 1)

\* Lines 170-187: ToR QSFP28 ports, rack by rack.
RECURSIVE TorQsfp28Ports(_, _, _)
TorQsfp28Ports(t, ts, i) ==
    IF i > Len(t.racks) THEN <<>>
    ELSE LET rack == t.racks[i] IN
         (IF TorKnown(ts, rack.tor_id)
             /\ rack.uplinks_qsfp28 > ts[rack.tor_id].qsfp28_total
          THEN <<PassFinding("FAIL", "PORT_CAPACITY_TOR_QSFP28",
                             [rack_id |-> rack.rack_id,
                              required_qsfp28 |-> rack.uplinks_qsfp28,
                              available_qsfp28 |-> ts[rack.tor_id].qsfp28_total,
                              deficit |-> rack.uplinks_qsfp28
                                          - ts[rack.tor_id].qsfp28_total])>>
          ELSE <<>>)
         \o TorQsfp28Ports(t, ts, i + 1)

\* sum(rack.uplinks_qsfp28 for rack in topology.racks)
RECURSIVE TotalUplinks(_, _)
TotalUplinks(racks, i) ==
    IF i > Len(racks) THEN 0 ELSE racks[i].uplinks_qsfp28 + TotalUplinks(racks, i + 1)

\* The near-limit threshold of line 205, in percent.
NearLimitPercent == 95

NearLimitAtOrAbove(total_uplinks, spine_capacity) ==
    total_uplinks * 100 >= spine_capacity * NearLimitPercent

\* total_uplinks > spine_capacity * 0.95
NearLimit(total_uplinks, spine_capacity) ==
    total_uplinks * 100 > spine_capacity * NearLimitPercent

\* Lines 190-217: spine QSFP28 ports.
SpinePorts(t) ==
    LET total_uplinks == TotalUplinks(t.racks, 1)
        spine_capacity == t.spine.qsfp28_total
    IN  IF total_uplinks > spine_capacity
        THEN <<PassFinding("FAIL", "PORT_CAPACITY_SPINE_QSFP28",
                           [total_uplinks |-> total_uplinks,
                            spine_capacity |-> spine_capacity,
                            deficit |-> total_uplinks - spine_capacity])>>
        ELSE IF NearLimit(total_uplinks, spine_capacity)
             THEN <<PassFinding("WARN", "PORT_CAPACITY_SPINE_NEAR_LIMIT",
                                [total_uplinks |-> total_uplinks,
                                 spine_capacity |-> spine_capacity])>>
             ELSE <<>>

\* Lines 220-225.
MgmtRj45Unvalidated == PassFinding("INFO", "MGMT_RJ45_UNVALIDATED", <<>>)

\* validate_ports(topology, tors, nodes, policy)
validate_ports(t, ts, ns, p) ==
    TorSfp28Ports(t, ts, ns, p, 1) \o TorQsfp28Ports(t, ts, 1) \o SpinePorts(t)
        \o <<MgmtRj45Unvalidated>>

\* Gbps of one SFP28 and one QSFP28 port (lines 303, 305, 311).
Sfp28Gbps == 25

Qsfp28Gbps == 100

\* Lines 299-308: edge bandwidth of the nodes from i on.
RECURSIVE EdgeBwGbps(_, _, _)
EdgeBwGbps(rack_nodes, p, i) ==
    IF i > Len(rack_nodes) THEN 0
    ELSE (IF rack_nodes[i].nics # <<>>
          THEN NicCount(rack_nodes[i].nics, {"SFP28"}, 1) * Sfp28Gbps
               + NicCount(rack_nodes[i].nics, {"QSFP28"}, 1) * Qsfp28Gbps
          ELSE p.nodes_25g_per_node * Sfp28Gbps)
         + EdgeBwGbps(rack_nodes, p, i + 1)

OversubContext(rack, edge_bw_gbps, uplink_bw_gbps) ==
    [rack_id |-> rack.rack_id, edge_gbps |-> edge_bw_gbps, uplink_gbps |-> uplink_bw_gbps]

\* ratio > max_ratio, with ratio = edge_bw_gbps / uplink_bw_gbps.
RatioExceeds(edge_bw_gbps, uplink_bw_gbps, max_ratio) ==
    edge_bw_gbps > max_ratio * uplink_bw_gbps

ExcessWithinQuarterStrict(edge_bw_gbps, uplink_bw_gbps, max_ratio) ==
    4 * (edge_bw_gbps - max_ratio * uplink_bw_gbps) < max_ratio * uplink_bw_gbps

\* excess_pct = (ratio - max_ratio) / max_ratio <= 0.25, for max_ratio > 0.
ExcessWithinQuarter(edge_bw_gbps, uplink_bw_gbps, max_ratio) ==
    4 * (edge_bw_gbps - max_ratio * uplink_bw_gbps) <= max_ratio * uplink_bw_gbps

\* Lines 297-355 for one rack.
OversubOfRack(rack, rack_nodes, p) ==
    LET edge_bw_gbps == EdgeBwGbps(rack_nodes, p, 1)
        uplink_bw_gbps == rack.uplinks_qsfp28 * Qsfp28Gbps
        max_ratio == p.max_leaf_to_spine_ratio
        context == OversubContext(rack, edge_bw_gbps, uplink_bw_gbps)
    IN  IF uplink_bw_gbps = 0 /\ edge_bw_gbps > 0
        THEN <<PassFinding("FAIL", "OVERSUB_NO_UPLINKS", context)>>
        ELSE IF uplink_bw_gbps > 0 /\ RatioExceeds(edge_bw_gbps, uplink_bw_gbps, max_ratio)
             THEN IF ExcessWithinQuarter(edge_bw_gbps, uplink_bw_gbps, max_ratio)
                  THEN <<PassFinding("WARN", "OVERSUB_RATIO", context)>>
                  ELSE <<PassFinding("FAIL", "OVERSUB_RATIO_CRITICAL", context)>>
             ELSE <<>>

\* validate_oversubscription(topology, tors, nodes, policy)
RECURSIVE OversubLoop(_, _, _, _)
OversubLoop(t, ns, p, i) ==
    IF i > Len(t.racks) THEN <<>>
    ELSE OversubOfRack(t.racks[i], NodesOfRack(ns, t.racks[i].rack_id), p)
         \o OversubLoop(t, ns, p, i + 1)

validate_oversubscription(t, ts, ns, p) == OversubLoop(t, ns, p, 1)

\* The manifests the passes are checked on.
PassRackLists ==
    {<<Rack("rack-1", "tor-1", u)>> : u \in {0, 1, 19, 20}}
        \cup {<<Rack("rack-1", "tor-1", u1), Rack("rack-2", "tor-2", u2)>> :
                u1 \in {1, 20}, u2 \in {0, 1}}
        \cup {<<Rack("rack-1", "tor-x", 1)>>}

PassTopologies == {Topology(r, c, 2) : r \in PassRackLists, c \in {0, 1, 20, 21}}

PassTors ==
    {[id \in {"tor-1", "tor-2"} |->
        IF id = "tor-1" THEN Tor("tor-1", "rack-1", s, 2) ELSE Tor("tor-2", "rack-2", 4, 1)] :
        s \in {0, 4, 48}}

PassNicLists ==
    {<<>>, <<NicN("RJ45", 1)>>, <<NicN("QSFP28", 1), NicN("SFP28", 1)>>,
     <<NicN("SFP28", 2), NicN("RJ45", 1), NicN("SFP28", 3)>>}
        \cup {<<NicN("SFP28", c)>> : c \in {4, 6, 16, 18, 20, 21, 60}}

PassNodeLists ==
    {<<Node("node-1", "rack-1", n)>> : n \in PassNicLists}
        \cup {<<Node("node-1", "rack-1", n), Node("node-2", "rack-1", <<NicN("SFP28", 1)>>)>> :
                n \in PassNicLists}
        \cup {<<Node("node-1", "rack-1", n), Node("node-2", "rack-2", <<>>)>> :
                n \in PassNicLists}

\* The policy keys the manifest passes read; the ratio is positive.
PassPolicies ==
    {[nodes_25g_per_node |-> 2, max_leaf_to_spine_ratio |-> 4],
     [nodes_25g_per_node |-> 5, max_leaf_to_spine_ratio |-> 1]}

InitPasses ==
    /\ mode = "passes"
    /\ pc = "start"
    /\ topology \in PassTopologies
    /\ tors \in PassTors
    /\ nodes \in PassNodeLists
    /\ policy \in PassPolicies
    /\ site = NoSite
    /\ done = {}
    /\ findings = <<>>
    /\ ReconIdle /\ GeomIdle /\ OrchIdle /\ BomIdle

\* One call of validate_ports.
ValidatePorts ==
    /\ mode = "passes" /\ pc = "start"
    /\ findings' = validate_ports(topology, tors, nodes, policy)
    /\ done' = {"ports"}
    /\ pc' = "returned"
    /\ UNCHANGED <<mode, validationVars, tors, reconVars, geomVars, orchVars, bomVars>>

\* One call of validate_oversubscription.
ValidateOversubscription ==
    /\ mode = "passes" /\ pc = "start"
    /\ findings' = validate_oversubscription(topology, tors, nodes, policy)
    /\ done' = {"oversubscription"}
    /\ pc' = "returned"
    /\ UNCHANGED <<mode, validationVars, tors, reconVars, geomVars, orchVars, bomVars>>

NextPasses == ValidatePorts \/ ValidateOversubscription

SpecPasses == InitPasses /\ [][NextPasses]_vars

(***************************************************************************)
(* Properties of validate_ports and validate_oversubscription              *)
(***************************************************************************)
PassReturned(name) == mode = "passes" /\ pc = "returned" /\ done = {name}

IsCodeOfRack(f, code, rack_id) == f.code = code /\ f.context.rack_id = rack_id

\* The findings of one code about one rack.
FindingsOfRack(f, code, rack_id) ==
    SelectSeq(f, LAMBDA x : IsCodeOfRack(x, code, rack_id))

\* Sum of the count fields of the NICs of node n whose type is t.
CountOfType(n, t) ==
    SumSeq([j \in 1..Len(n.nics) |-> IF n.nics[j].type = t THEN n.nics[j].count ELSE 0])

\* SFP28 ports a node needs: its SFP28 NIC counts, or the policy default
\* when it declares no NICs.
NodeSfp28(n) ==
    IF n.nics = <<>> THEN policy.nodes_25g_per_node ELSE CountOfType(n, "SFP28")

RackRequiredSfp28(rack_id) ==
    SumSeq([i \in 1..Len(nodes) |->
              IF nodes[i].rack_id = rack_id THEN NodeSfp28(nodes[i]) ELSE 0])

\* C11: for each topology rack whose ToR is known, validate_ports emits
\* exactly one FAIL PORT_CAPACITY_TOR_SFP28, with deficit = required -
\* sfp28_total, iff the required SFP28 ports exceed sfp28_total, and none for
\* that rack otherwise.
C11_TorSfp28Deficit ==
    PassReturned("ports") =>
        \A i \in 1..Len(topology.racks) :
            LET rack == topology.racks[i]
                required == RackRequiredSfp28(rack.rack_id)
                hits == FindingsOfRack(findings, "PORT_CAPACITY_TOR_SFP28", rack.rack_id)
            IN  TorKnown(tors, rack.tor_id) =>
                    IF required > tors[rack.tor_id].sfp28_total
                    THEN /\ Len(hits) = 1
                         /\ hits[1].severity = "FAIL"
                         /\ hits[1].context.deficit
                                = required - tors[rack.tor_id].sfp28_total
                    ELSE hits = <<>>

\* 61 required (60 of one node, 1 of a second) against 48: one finding with
\* deficit 13.
C11_Witness ==
    /\ PassReturned("ports")
    /\ Len(nodes) = 2 /\ nodes[2].rack_id = "rack-1"
    /\ RackRequiredSfp28("rack-1") = 61 /\ tors["tor-1"].sfp28_total = 48
    /\ Len(FindingsOfRack(findings, "PORT_CAPACITY_TOR_SFP28", "rack-1")) = 1
    /\ FindingsOfRack(findings, "PORT_CAPACITY_TOR_SFP28", "rack-1")[1].context.deficit = 13

\* C12: with total the sum of uplinks_qsfp28 and cap the spine's
\* qsfp28_total, validate_ports emits FAIL PORT_CAPACITY_SPINE_QSFP28 (with
\* deficit = total - cap) iff total > cap, WARN PORT_CAPACITY_SPINE_NEAR_LIMIT
\* iff total <= cap and total > 0.95 * cap, never both, and neither otherwise.
C12_SpineCapacity ==
    PassReturned("ports") =>
        LET total == SumSeq([i \in 1..Len(topology.racks) |->
                               topology.racks[i].uplinks_qsfp28])
            cap == topology.spine.qsfp28_total
            fails == SelectSeq(findings, LAMBDA x : IsCode(x, {"PORT_CAPACITY_SPINE_QSFP28"}))
            warns == SelectSeq(findings,
                               LAMBDA x : IsCode(x, {"PORT_CAPACITY_SPINE_NEAR_LIMIT"}))
        IN  /\ Len(fails) = (IF total > cap THEN 1 ELSE 0)
            /\ Len(warns) = (IF total <= cap /\ 100 * total > 95 * cap THEN 1 ELSE 0)
            /\ Len(fails) + Len(warns) <= 1
            /\ \A k \in 1..Len(fails) : /\ fails[k].severity = "FAIL"
                                        /\ fails[k].context.deficit = total - cap
            /\ \A k \in 1..Len(warns) : warns[k].severity = "WARN"

\* 20 uplinks on a spine of 21 ports: the warning, below the capacity.
C12_Witness ==
    /\ PassReturned("ports")
    /\ topology.spine.qsfp28_total = 21
    /\ TotalUplinks(topology.racks, 1) = 20
    /\ \E k \in 1..Len(findings) : findings[k].code = "PORT_CAPACITY_SPINE_NEAR_LIMIT"

\* Edge bandwidth of a rack: 25 per SFP28 and 100 per QSFP28 NIC count, the
\* policy default NICs * 25 for a node that declares none.
NodeEdgeGbps(n) ==
    IF n.nics = <<>> THEN policy.nodes_25g_per_node * 25
    ELSE CountOfType(n, "SFP28") * 25 + CountOfType(n, "QSFP28") * 100

RackEdgeGbps(rack_id) ==
    SumSeq([i \in 1..Len(nodes) |->
              IF nodes[i].rack_id = rack_id THEN NodeEdgeGbps(nodes[i]) ELSE 0])

IsOversubOfRack(f, rack_id) ==
    /\ f.code \in {"OVERSUB_NO_UPLINKS", "OVERSUB_RATIO", "OVERSUB_RATIO_CRITICAL"}
    /\ f.context.rack_id = rack_id

FractionBits == 52

\* The four bits of a hexadecimal digit, least significant first.
HexBits(h) == <<h % 2, (h \div 2) % 2, (h \div 4) % 2, (h \div 8) % 2>>

\* The bits of a hexadecimal numeral written most significant digit first.
RECURSIVE BitsOfHex(_)
BitsOfHex(hex) ==
    IF hex = <<>> THEN <<>> ELSE BitsOfHex(Tail(hex)) \o HexBits(Head(hex))

RECURSIVE NatOfBits(_)
NatOfBits(b) == IF b = <<>> THEN 0 ELSE Head(b) + 2 * NatOfBits(Tail(b))

RECURSIVE AddBits(_, _, _)
AddBits(a, b, carry) ==
    IF a = <<>> /\ b = <<>> THEN (IF carry = 1 THEN <<1>> ELSE <<>>)
    ELSE LET x == IF a = <<>> THEN 0 ELSE Head(a)
             y == IF b = <<>> THEN 0 ELSE Head(b)
             t == x + y + carry
         IN  <<t % 2>> \o AddBits(IF a = <<>> THEN a ELSE Tail(a),
                                  IF b = <<>> THEN b ELSE Tail(b), t \div 2)

\* The exact product of the natural number n and the number with bits a.
RECURSIVE MulBits(_, _)
MulBits(a, n) ==
    IF n = 0 THEN <<>>
    ELSE LET h == <<0>> \o MulBits(a, n \div 2)
         IN  IF n % 2 = 1 THEN AddBits(h, a, 0) ELSE h

\* Without the leading zero bits.
RECURSIVE Significant(_)
Significant(b) ==
    IF b = <<>> \/ b[Len(b)] = 1 THEN b ELSE Significant(SubSeq(b, 1, Len(b) - 1))

Zeros(k) == [i \in 1..k |-> 0]

\* Round to nearest, ties to even, to 53 significant bits.
RoundToDouble(b) ==
    LET p == Significant(b)
        dropped == Len(p) - (FractionBits + 1)
    IN  IF dropped <= 0 THEN p
        ELSE LET kept == SubSeq(p, dropped + 1, Len(p))
                 guard == p[dropped]
                 sticky == \E i \in 1..(dropped - 1) : p[i] = 1
                 up == guard = 1 /\ (sticky \/ kept[1] = 1)
             IN  Zeros(dropped) \o (IF up THEN AddBits(kept, <<1>>, 0) ELSE kept)

\* math.ceil of the number with bits b scaled by 2^-52.
CeilOfBits(b) ==
    LET whole == IF Len(b) > FractionBits THEN NatOfBits(SubSeq(b, FractionBits + 1, Len(b)))
                 ELSE 0
        fraction == \E i \in 1..Min2(Len(b), FractionBits) : b[i] = 1
    IN  IF fraction THEN whole + 1 ELSE whole

\* A spares fraction: the decimal num / den the policy states, and the
\* double that 1.0 + spares_fraction evaluates to, as hexadecimal digits.
SparesFraction(num, den, one_plus) == [num |-> num, den |-> den, one_plus |-> one_plus]

SparesFractions ==
    {SparesFraction(0, 1, <<1, 0, 0, 0, 0, 0, 0, 0, 0, 0, 0, 0, 0, 0>>),
     SparesFraction(1, 10, <<1, 1, 9, 9, 9, 9, 9, 9, 9, 9, 9, 9, 9, 10>>),
     SparesFraction(1, 5, <<1, 3, 3, 3, 3, 3, 3, 3, 3, 3, 3, 3, 3, 3>>),
     SparesFraction(1, 2, <<1, 8, 0, 0, 0, 0, 0, 0, 0, 0, 0, 0, 0, 0>>)}

\* _with_spares(count, spares_fraction):
\* int(math.ceil(count * (1.0 + spares_fraction)))
with_spares(count, sf) == CeilOfBits(RoundToDouble(MulBits(BitsOfHex(sf.one_plus), count)))

Link(cable_type, length_bin) == [cable_type |-> cable_type, length_bin |-> length_bin]

\* The (cable_type, length_bin) pairs bom holds after the counting loop.
PairsOf(ls) == {ls[i] : i \in 1..Len(ls)}

\* bom[cable_type][length_bin] after the counting loop.
CountOf(ls, pair) == Cardinality({i \in 1..Len(ls) : ls[i] = pair})

\* _aggregate_cable_bom(links, policy, spares_fraction, length_bins_m): the
\* nested dict, as a function of the (cable_type, length_bin) pairs.
aggregate_cable_bom(ls, sf) == [pair \in PairsOf(ls) |-> with_spares(CountOf(ls, pair), sf)]

\* Largest number of links of one kind.
MaxLinks == 50

Repeat(x, k) == [i \in 1..k |-> x]

\* Link lists: a run of DAC links of one bin, followed or interleaved with a
\* few links of another cable type or bin.
LinkLists ==
    {Repeat(Link("SFP28 25G DAC", 3), a) \o Repeat(Link("RJ45 Cat6A", 3), b)
        : a \in 0..MaxLinks, b \in 0..2}
     \cup {<<Link("SFP28 25G DAC", 1), Link("SFP28 25G DAC", 3), Link("SFP28 25G DAC", 1)>>}

InitBom ==
    /\ mode = "bom"
    /\ pc = "start"
    /\ links \in LinkLists
    /\ spares_fraction \in SparesFractions
    /\ cable_bom = Idle
    /\ findings = <<>>
    /\ ReconIdle /\ GeomIdle /\ ValidationIdle /\ OrchIdle /\ PassIdle

\* One call of _aggregate_cable_bom.
AggregateCableBom ==
    /\ mode = "bom" /\ pc = "start"
    /\ cable_bom' = aggregate_cable_bom(links, spares_fraction)
    /\ pc' = "returned"
    /\ UNCHANGED <<mode, findings, links, spares_fraction, reconVars, geomVars,
                   validationVars, orchVars, passVars>>

NextBom == AggregateCableBom

SpecBom == InitBom /\ [][NextBom]_vars

\* The least integer >= n * (1 + num / den).
ExactCeil(n, sf) == (n * (sf.den + sf.num) + sf.den - 1) \div sf.den

BomReturned == mode = "bom" /\ pc = "returned"

\* C14: _aggregate_cable_bom maps each (cable_type, length_bin) pair of the
\* input links to the least integer >= n * (1 + spares_fraction), n being the
\* number of links with that pair, and holds no other pair.
C14_SparesExactCeiling ==
    BomReturned =>
        /\ DOMAIN cable_bom = PairsOf(links)
        /\ \A pair \in DOMAIN cable_bom :
               cable_bom[pair] = ExactCeil(CountOf(links, pair), spares_fraction)

\* What does hold: the pairs are those of the links, no quantity is below
\* the count or more than one above the exact ceiling, and without spares
\* the quantity is the count.
BomQuantitiesBounded ==
    BomReturned =>
        /\ DOMAIN cable_bom = PairsOf(links)
        /\ \A pair \in DOMAIN cable_bom :
               LET n == CountOf(links, pair) IN
               /\ cable_bom[pair] >= n
               /\ cable_bom[pair] \in {ExactCeil(n, spares_fraction),
                                       ExactCeil(n, spares_fraction) + 1}
               /\ spares_fraction.num = 0 => cable_bom[pair] = n

\* 50 links at 10% come out as 56, one more than the ceiling of 55.
BomOneTooMany ==
    /\ BomReturned
    /\ spares_fraction.num = 1 /\ spares_fraction.den = 10
    /\ \E pair \in DOMAIN cable_bom : CountOf(links, pair) = 50 /\ cable_bom[pair] = 56

(***************************************************************************)
(* Intent derivation: cross_validate._derive_intent_links                  *)
(***************************************************************************)
\* A key a link dict does not have.
NoKey == ""

IntentLink(class, cable_type, length_bin_m, rack_id, node_id) ==
    [class |-> class, cable_type |-> cable_type, length_bin_m |-> length_bin_m,
     rack_id |-> rack_id, node_id |-> node_id]

\* The policy dict: slack_factor is None under a section that lacks the key.
IntentPolicy(defaults_slack, heuristics_slack, mgmt, sfp28_bins, rj45_bins) ==
    [defaults |-> [nodes_25g_per_node |-> 2, mgmt_rj45_per_node |-> mgmt,
                   slack_factor |-> defaults_slack],
     heuristics |-> [same_rack_leaf_to_node_m |-> 2 * DistScale,
                     adjacent_rack_leaf_to_spine_m |-> 5 * DistScale,
                     slack_factor |-> heuristics_slack, tile_m |-> 1],
     media_rules |-> [sfp28_25g |-> sfp28_bins, qsfp28_100g |-> <<1, 2, 3, 5, 7, 10>>,
                      rj45_cat6a |-> rj45_bins]]

\* The fixed base distances of the mgmt and the wan links, in metres.
MgmtDistanceM == 5

WanDistanceM == 10

\* defaults.get("slack_factor", 1.2)
intent_slack_factor(p) ==
    IF p.defaults.slack_factor = None THEN (SlackScale * 6) \div 5
    ELSE p.defaults.slack_factor

\* The slack factor the policy's heuristics section states.
heuristics_slack_factor(p) == p.heuristics.slack_factor

\* _calculate_manhattan_distance, in 1/DistScale m.
calculate_manhattan_distance(rack1_grid, rack2_grid, tile_m) ==
    (Abs(rack1_grid[1] - rack2_grid[1]) * tile_m
        + Abs(rack1_grid[2] - rack2_grid[2]) * tile_m) * DistScale

\* rack_positions: the ids of the site racks.
RackPositionIds(s) ==
    IF s.is_none THEN {} ELSE {s.racks[i].id : i \in 1..Len(s.racks)}

\* rack_positions[id]: rack.get("grid", [0, 0]) of the last rack of that id.
RackPosition(s, id) ==
    LET k == CHOOSE i \in 1..Len(s.racks) :
                 /\ s.racks[i].id = id
                 /\ \A j \in (i + 1)..Len(s.racks) : s.racks[j].id # id
    IN  IF s.racks[k].grid = NoGrid THEN <<0, 0>> ELSE s.racks[k].grid

\* sum(1 for nic in nics if nic.get("type") == "SFP28"): the NIC entries, with
\* their count fields not read.
Sfp28Entries(nics) == Len(SelectSeq(nics, LAMBDA nic : nic.type = "SFP28"))

\* sfp28_count of a node, lines 150-153.
LeafNodeCount(node, p) ==
    IF Sfp28Entries(node.nics) = 0 THEN p.defaults.nodes_25g_per_node
    ELSE Sfp28Entries(node.nics)

\* Base distances, in 1/DistScale m.
LeafNodeDistance(p) == p.heuristics.same_rack_leaf_to_node_m

LeafSpineDistance(s, p, rack_id) ==
    IF rack_id \in RackPositionIds(s) /\ "spine" \in RackPositionIds(s)
    THEN calculate_manhattan_distance(RackPosition(s, rack_id), RackPosition(s, "spine"),
                                      p.heuristics.tile_m)
    ELSE p.heuristics.adjacent_rack_leaf_to_spine_m

\* Lines 146-175.
RECURSIVE LeafNodeLinks(_, _, _)
LeafNodeLinks(ns, p, i) ==
    IF i > Len(ns) THEN <<>>
    ELSE LET distance == apply_slack(LeafNodeDistance(p), intent_slack_factor(p))
             length_bin == intent_select_length_bin(distance, p.media_rules.sfp28_25g)
         IN  Repeat(IntentLink("leaf-node", "sfp28_25g", length_bin, ns[i].rack_id, ns[i].id),
                    LeafNodeCount(ns[i], p))
             \o LeafNodeLinks(ns, p, i + 1)

\* Lines 177-200.
RECURSIVE LeafSpineLinks(_, _, _, _)
LeafSpineLinks(t, s, p, i) ==
    IF i > Len(t.racks) THEN <<>>
    ELSE LET distance == apply_slack(LeafSpineDistance(s, p, t.racks[i].rack_id),
                                     intent_slack_factor(p))
             length_bin == intent_select_length_bin(distance, p.media_rules.qsfp28_100g)
         IN  Repeat(IntentLink("leaf-spine", "qsfp28_100g", length_bin, t.racks[i].rack_id,
                               NoKey), t.racks[i].uplinks_qsfp28)
             \o LeafSpineLinks(t, s, p, i + 1)

\* Lines 202-225.
RECURSIVE MgmtLinks(_, _, _)
MgmtLinks(ns, p, i) ==
    IF i > Len(ns) THEN <<>>
    ELSE LET distance == apply_slack(MgmtDistanceM * DistScale, intent_slack_factor(p))
             length_bin == intent_select_length_bin(distance, p.media_rules.rj45_cat6a)
         IN  Repeat(IntentLink("mgmt", "rj45_cat6a", length_bin, ns[i].rack_id, ns[i].id),
                    p.defaults.mgmt_rj45_per_node)
             \o MgmtLinks(ns, p, i + 1)

\* Lines 227-242.
WanLinks(t, p) ==
    LET distance == apply_slack(WanDistanceM * DistScale, intent_slack_factor(p))
        length_bin == intent_select_length_bin(distance, p.media_rules.rj45_cat6a)
    IN  Repeat(IntentLink("wan", "rj45_cat6a", length_bin, NoKey, NoKey),
               t.wan.uplinks_cat6a)

\* _derive_intent_links(topology, tors, nodes, site, policy)
derive_intent_links(t, ns, s, p) ==
    LeafNodeLinks(ns, p, 1) \o LeafSpineLinks(t, s, p, 1) \o MgmtLinks(ns, p, 1)
        \o WanLinks(t, p)

IntentNicLists ==
    {<<>>, <<NicN("SFP28", 1)>>, <<NicN("SFP28", 2)>>,
     <<NicN("SFP28", 1), NicN("SFP28", 1)>>, <<NicN("RJ45", 1)>>,
     <<NicN("SFP28", 2), NicN("RJ45", 1)>>}

IntentNodeLists ==
    {<<>>} \cup
    {<<Node("node-1", "rack-1", n1)>> : n1 \in IntentNicLists} \cup
    {<<Node("node-1", "rack-1", n1), Node("node-2", "rack-2", <<>>)>> : n1 \in IntentNicLists}

IntentTopologies ==
    {Topology(<<Rack("rack-1", "tor-1", u)>>, 32, w) : u \in 0..MaxQty, w \in {0, 2}} \cup
    {Topology(<<Rack("rack-1", "tor-1", 2), Rack("rack-2", "tor-2", u)>>, 32, 2) :
        u \in 0..MaxQty}

IntentSites ==
    {NoSite,
     [is_none |-> FALSE, racks |-> <<SiteRack("rack-1", <<0, 0>>), SiteRack("rack-2", <<2, 1>>)>>],
     [is_none |-> FALSE, racks |-> <<SiteRack("rack-1", <<6, 6>>), SiteRack("rack-2", NoGrid),
                                     SiteRack("spine", <<1, 0>>)>>]}

IntentPolicies ==
    {IntentPolicy(ds, hs, mgmt, sb, rb) :
        ds \in {None, 2 * SlackScale},
        hs \in {SlackScale, (SlackScale * 6) \div 5, 2 * SlackScale},
        mgmt \in 1..2,
        sb \in {<<1, 2, 3, 5, 7, 10>>, <<2, 1>>},
        rb \in {<<1, 2, 3, 5, 7, 10>>, <<5, 15, 30>>}}

InitIntent ==
    /\ mode = "intent"
    /\ pc = "start"
    /\ topology \in IntentTopologies
    /\ nodes \in IntentNodeLists
    /\ site \in IntentSites
    /\ policy \in IntentPolicies
    /\ links = <<>>
    /\ spares_fraction = Idle /\ cable_bom = Idle
    /\ findings = <<>>
    /\ ReconIdle /\ GeomIdle /\ OrchIdle /\ PassIdle

\* One call of _derive_intent_links.
DeriveIntentLinks ==
    /\ mode = "intent" /\ pc = "start"
    /\ links' = derive_intent_links(topology, nodes, site, policy)
    /\ pc' = "returned"
    /\ UNCHANGED <<mode, findings, spares_fraction, cable_bom, reconVars, geomVars,
                   validationVars, orchVars, passVars>>

NextIntent == DeriveIntentLinks

SpecIntent == InitIntent /\ [][NextIntent]_vars

IntentReturned == mode = "intent" /\ pc = "returned"

\* The links of a class, and those of a node or a rack among them.
LinksOfClass(class) == SelectSeq(links, LAMBDA l : l.class = class)

LinksOfNode(class, node_id) == SelectSeq(LinksOfClass(class), LAMBDA l : l.node_id = node_id)

LinksOfRack(class, rack_id) == SelectSeq(LinksOfClass(class), LAMBDA l : l.rack_id = rack_id)

\* The SFP28 NIC count of a node: the sum of the count fields of its SFP28
\* NICs, or the policy default when it declares no NICs.
IntentNodeSfp28(n) ==
    IF n.nics = <<>> THEN policy.defaults.nodes_25g_per_node ELSE CountOfType(n, "SFP28")

\* C15: _derive_intent_links produces, for every node, as many leaf-node
\* links as the node's SFP28 NIC count (the sum of the count fields of its
\* SFP28 NICs, or defaults.nodes_25g_per_node when it declares no NICs), for
\* every rack uplinks_qsfp28 leaf-spine links, for every node
\* mgmt_rj45_per_node mgmt links, and wan.uplinks_cat6a wan links.
C15_IntentLinkCounts ==
    IntentReturned =>
        /\ \A i \in 1..Len(nodes) :
            /\ Len(LinksOfNode("leaf-node", nodes[i].id)) = IntentNodeSfp28(nodes[i])
            /\ Len(LinksOfNode("mgmt", nodes[i].id)) = policy.defaults.mgmt_rj45_per_node
        /\ \A i \in 1..Len(topology.racks) :
            Len(LinksOfRack("leaf-spine", topology.racks[i].rack_id))
                = topology.racks[i].uplinks_qsfp28
        /\ Len(LinksOfClass("wan")) = topology.wan.uplinks_cat6a

\* What does hold: the leaf-node links of a node are as many as its SFP28 NIC
\* entries (the default when it has none), and the other three classes have
\* the stated numbers of links.
IntentCountsEntries ==
    IntentReturned =>
        /\ \A i \in 1..Len(nodes) :
            /\ Len(LinksOfNode("leaf-node", nodes[i].id)) = LeafNodeCount(nodes[i], policy)
            /\ Len(LinksOfNode("mgmt", nodes[i].id)) = policy.defaults.mgmt_rj45_per_node
        /\ \A i \in 1..Len(topology.racks) :
            Len(LinksOfRack("leaf-spine", topology.racks[i].rack_id))
                = topology.racks[i].uplinks_qsfp28
        /\ Len(LinksOfClass("wan")) = topology.wan.uplinks_cat6a

\* A node with one SFP28 NIC entry of count 2 gets one leaf-node link.
IntentCountFieldIgnored ==
    /\ IntentReturned
    /\ \E i \in 1..Len(nodes) :
        /\ nodes[i].nics = <<NicN("SFP28", 2)>>
        /\ Len(LinksOfNode("leaf-node", nodes[i].id)) = 1

\* The base distance of a link, in 1/DistScale m, and the bins of its media.
BaseDistance(l) ==
    IF l.class = "leaf-node" THEN LeafNodeDistance(policy)
    ELSE IF l.class = "leaf-spine" THEN LeafSpineDistance(site, policy, l.rack_id)
    ELSE IF l.class = "mgmt" THEN MgmtDistanceM * DistScale
    ELSE WanDistanceM * DistScale

BinsOfMedia(l) ==
    IF l.cable_type = "sfp28_25g" THEN policy.media_rules.sfp28_25g
    ELSE IF l.cable_type = "qsfp28_100g" THEN policy.media_rules.qsfp28_100g
    ELSE policy.media_rules.rj45_cat6a

\* C16: every link of _derive_intent_links carries the bin the shared
\* geometry rules give for the same policy: length_bin_m =
\* select_length_bin(apply_slack(d, heuristics.slack_factor), bins of the
\* link's media), d being the link's base distance.
C16_IntentBinsFollowGeometry ==
    IntentReturned =>
        \A i \in 1..Len(links) :
            links[i].length_bin_m =
                select_length_bin(apply_slack(BaseDistance(links[i]),
                                              heuristics_slack_factor(policy)),
                                  BinsOfMedia(links[i]))

\* What does hold: the bin follows defaults.slack_factor (1.2 when absent),
\* and is the largest bin when none fits.
IntentBinsFollowDefaultsSlack ==
    IntentReturned =>
        \A i \in 1..Len(links) :
            links[i].length_bin_m =
                intent_select_length_bin(apply_slack(BaseDistance(links[i]),
                                                     intent_slack_factor(policy)),
                                         BinsOfMedia(links[i]))

\* heuristics.slack_factor 2.0 and no defaults.slack_factor: a leaf-node link
\* of 2 m gets the 3 m bin of 2.4 m, not the 5 m bin of 4 m.
IntentHeuristicsSlackIgnored ==
    /\ IntentReturned
    /\ policy.defaults.slack_factor = None
    /\ policy.heuristics.slack_factor = 2 * SlackScale
    /\ policy.media_rules.sfp28_25g = <<1, 2, 3, 5, 7, 10>>
    /\ \E i \in 1..Len(links) : links[i].class = "leaf-node" /\ links[i].length_bin_m = 3

\* A wan link of 10 m at slack 1.2 needs 12 m: no bin of 1..10 fits and the
\* link carries the 10 m bin.
IntentBinClamped ==
    /\ IntentReturned
    /\ policy.defaults.slack_factor = None
    /\ policy.heuristics.slack_factor = (SlackScale * 6) \div 5
    /\ \E i \in 1..Len(links) :
        /\ links[i].class = "wan" /\ links[i].length_bin_m = 10
        /\ select_length_bin(apply_slack(BaseDistance(links[i]),
                                         heuristics_slack_factor(policy)),
                             BinsOfMedia(links[i])) = None

(***************************************************************************)
(* Properties of validate_lengths with site geometry                       *)
(***************************************************************************)
LengthsWithSite == mode = "lengths" /\ pc # "start" /\ ~SiteMissing(site)

\* The NICs of the given type the node loops visit for a node.
VisitsOf(node_id, type) ==
    SelectSeq(NicVisits(topology, nodes, 1),
              LAMBDA v : v.node_id = node_id /\ v.type = type)

\* The findings of a code about a media class for a node or a rack.
LengthFindings(code, media_class, node_id, rack_id) ==
    SelectSeq(findings, LAMBDA f : /\ f.code = code /\ f.media_class = media_class
                                   /\ f.node_id = node_id /\ f.rack_id = rack_id)

\* No bin fits the slack-adjusted distance a.
NoBinFits(a, bins_m) == \A i \in 1..Len(bins_m) : ~Fits(a, bins_m[i])

\* The distance exceeds dac_max_m and no bin is greater than dac_max_m.
BeyondDacNoAoc(a, r) ==
    /\ a > r.dac_max_m * AdjScale
    /\ \A i \in 1..Len(r.bins_m) : r.bins_m[i] <= r.dac_max_m

\* What the statement requires of the findings about one group of k optical
\* links of adjusted length a under media rule r.
OpticalAsStated(a, r, k, media_class, node_id, rack_id) ==
    LET max_bin == LengthFindings("LENGTH_EXCEEDS_MAX_BIN", media_class, node_id, rack_id)
        no_aoc == LengthFindings("LENGTH_EXCEEDS_DAC_NO_AOC_BINS", media_class, node_id,
                                 rack_id)
    IN  /\ NoBinFits(a, r.bins_m) => Len(max_bin) = k
        /\ BeyondDacNoAoc(a, r) => Len(no_aoc) = k
        /\ (~NoBinFits(a, r.bins_m) /\ ~BeyondDacNoAoc(a, r))
               => (Len(max_bin) = 0 /\ Len(no_aoc) = 0)

\* What the code gives: LENGTH_EXCEEDS_MAX_BIN exactly when no bin fits, and
\* never LENGTH_EXCEEDS_DAC_NO_AOC_BINS.
OpticalAsCoded(a, r, k, media_class, node_id, rack_id) ==
    LET max_bin == LengthFindings("LENGTH_EXCEEDS_MAX_BIN", media_class, node_id, rack_id)
        no_aoc == LengthFindings("LENGTH_EXCEEDS_DAC_NO_AOC_BINS", media_class, node_id,
                                 rack_id)
    IN  /\ Len(max_bin) = (IF NoBinFits(a, r.bins_m) THEN k ELSE 0)
        /\ Len(no_aoc) = 0

LeafNodeAdjusted == apply_slack(policy.same_rack_leaf_to_node_m, policy.slack_factor)

LeafSpineAdjusted(rack_id) ==
    apply_slack(compute_rack_distance_m(PositionOf(site, rack_id), <<0, 0>>, policy.tile_m),
                policy.slack_factor)

\* C17: with site geometry, for each SFP28 NIC of a node in a topology rack,
\* and for the QSFP28 uplinks of each positioned rack, validate_lengths emits
\* FAIL LENGTH_EXCEEDS_MAX_BIN if no bin fits the slack-adjusted distance,
\* FAIL LENGTH_EXCEEDS_DAC_NO_AOC_BINS if the distance exceeds dac_max_m and
\* no bin is greater than dac_max_m, and no length finding otherwise.
C17_OpticalLengthFindings ==
    (LengthsWithSite /\ pc = "returned") =>
        /\ \A i \in 1..Len(nodes) :
            OpticalAsStated(LeafNodeAdjusted, policy.sfp28_25g,
                            Len(VisitsOf(nodes[i].id, "SFP28")), "SFP28",
                            nodes[i].id, nodes[i].rack_id)
        /\ \A i \in 1..Len(topology.racks) :
            HasPosition(site, topology.racks[i].rack_id) =>
                OpticalAsStated(LeafSpineAdjusted(topology.racks[i].rack_id),
                                policy.qsfp28_100g, 1, "QSFP28", "",
                                topology.racks[i].rack_id)

\* What does hold of the optical links.
LengthsOnlyMaxBin ==
    (LengthsWithSite /\ pc = "returned") =>
        /\ \A i \in 1..Len(nodes) :
            OpticalAsCoded(LeafNodeAdjusted, policy.sfp28_25g,
                           Len(VisitsOf(nodes[i].id, "SFP28")), "SFP28",
                           nodes[i].id, nodes[i].rack_id)
        /\ \A i \in 1..Len(topology.racks) :
            HasPosition(site, topology.racks[i].rack_id) =>
                OpticalAsCoded(LeafSpineAdjusted(topology.racks[i].rack_id),
                               policy.qsfp28_100g, 1, "QSFP28", "",
                               topology.racks[i].rack_id)

\* An SFP28 NIC 2.4 m from its leaf, a DAC limit of 2 m and bins of 1 and
\* 2 m: the finding is LENGTH_EXCEEDS_MAX_BIN.
LengthsNoAocReportedAsMaxBin ==
    /\ LengthsWithSite /\ pc = "returned"
    /\ policy.sfp28_25g = MediaRule(2, <<1, 2>>)
    /\ LeafNodeAdjusted > 2 * AdjScale
    /\ \E i \in 1..Len(nodes) :
        /\ Len(VisitsOf(nodes[i].id, "SFP28")) = 1
        /\ Len(LengthFindings("LENGTH_EXCEEDS_MAX_BIN", "SFP28", nodes[i].id,
                              nodes[i].rack_id)) = 1
        /\ Len(LengthFindings("LENGTH_EXCEEDS_DAC_NO_AOC_BINS", "SFP28", nodes[i].id,
                              nodes[i].rack_id)) = 0

\* What the statement requires of the findings about the k RJ45 NICs of a
\* node.
Rj45AsStated(k, node_id, rack_id) ==
    LET selected_bin == select_length_bin(LeafNodeAdjusted, policy.rj45_bins)
        warn == LengthFindings("RJ45_BIN_GT_100M", "RJ45", node_id, rack_id)
        fail == LengthFindings("LENGTH_EXCEEDS_MAX_BIN", "RJ45", node_id, rack_id)
    IN  /\ Len(warn) = (IF selected_bin # None /\ selected_bin > Rj45MaxM THEN k ELSE 0)
        /\ Len(fail) = (IF selected_bin = None THEN k ELSE 0)
        /\ \A j \in 1..Len(warn) : warn[j].severity = "WARN"
        /\ \A j \in 1..Len(fail) : fail[j].severity = "FAIL"

\* C18: with site geometry, validate_lengths completes without raising and
\* emits, for every RJ45 NIC of a node in a topology rack, exactly one WARN
\* RJ45_BIN_GT_100M if the selected bin exceeds 100, exactly one FAIL
\* LENGTH_EXCEEDS_MAX_BIN if no RJ45 bin fits, and nothing otherwise,
\* whatever else the manifests contain.
C18_Rj45NeverRaises ==
    LengthsWithSite =>
        /\ pc = "returned"
        /\ \A i \in 1..Len(nodes) :
            Rj45AsStated(Len(VisitsOf(nodes[i].id, "RJ45")), nodes[i].id, nodes[i].rack_id)

\* What does hold: a call that returns has the stated RJ45 findings.
Rj45FindingsWhenReturned ==
    (LengthsWithSite /\ pc = "returned") =>
        \A i \in 1..Len(nodes) :
            Rj45AsStated(Len(VisitsOf(nodes[i].id, "RJ45")), nodes[i].id, nodes[i].rack_id)

\* An RJ45 NIC, RJ45 bins that fit, no SFP28 NIC and no positioned rack:
\* the read of slack_factor raises.
Rj45SlackFactorUnbound ==
    /\ LengthsWithSite /\ pc = "raised"
    /\ policy.rj45_bins = <<1, 3, 5>>
    /\ \A i \in 1..Len(nodes) : \A j \in 1..Len(nodes[i].nics) : nodes[i].nics[j].type # "SFP28"
    /\ \A i \in 1..Len(site.racks) : site.racks[i].grid = NoGrid
    /\ Len(VisitsOf("node-1", "RJ45")) = 1

(***************************************************************************)
(* The policy pass: validate_policy_sanity                                 *)
(***************************************************************************)
\* A YAML value with its Python type: v is the integer of an int or a bool,
\* and the number in 1/ValScale of a float.
ValScale == 10

Val(kind, v) == [kind |-> kind, v |-> v]

\* A key the dict does not hold, and a key whose value is null.
Absent == Val("absent", 0)

NoneVal == Val("none", 0)

IntVal(v) == Val("int", v)

FloatVal(v) == Val("float", v)

StrVal == Val("str", 0)

BoolVal(v) == Val("bool", v)

\* d.get(key) is None
IsNone(x) == x.kind \in {"absent", "none"}

\* isinstance(x, int): a bool is an int.
IsInstanceInt(x) == x.kind \in {"int", "bool"}

IsNumber(x) == x.kind \in {"int", "bool", "float"}

\* float(x) raises ValueError or TypeError.
FloatRaises(x) == ~IsNumber(x)

\* The number x in 1/ValScale.
Scaled(x) == IF x.kind = "float" THEN x.v ELSE x.v * ValScale

\* One entry of media_rules; has_bins is "bins_m is not None".
SanityRule(has_bins, bins, dac_max) ==
    [has_bins |-> has_bins, bins_m |-> bins, dac_max_m |-> dac_max]

SanityFinding(severity, code, key) == PassFinding(severity, code, [key |-> key])

Returns(f) == [raised |-> FALSE, f |-> f]

Raises == [raised |-> TRUE, f |-> <<>>]

\* Two results one after the other: an exception ends the function.
Then(a, b) == IF a.raised \/ b.raised THEN Raises ELSE Returns(a.f \o b.f)

\* Section A, lines 641-658.
SparesFractionSanity(p) ==
    LET x == p.defaults.spares_fraction IN
    IF IsNone(x) THEN <<>>
    ELSE IF FloatRaises(x)
    THEN <<SanityFinding("FAIL", "POLICY_SPARES_TYPE", "defaults.spares_fraction")>>
    ELSE IF ~(0 <= Scaled(x) /\ Scaled(x) <= ValScale)
    THEN <<SanityFinding("FAIL", "POLICY_SPARES_RANGE", "defaults.spares_fraction")>>
    ELSE <<>>

\* [b for b in bins if not isinstance(b, int) or b <= 0]
InvalidBins(bins) == SelectSeq(bins, LAMBDA b : ~IsInstanceInt(b) \/ b.v <= 0)

\* len(bins) != len(set(bins)), for bins that are ints.
HasDuplicates(bins) == \E i, j \in 1..Len(bins) : i < j /\ bins[i].v = bins[j].v

IntsOf(bins) == [i \in 1..Len(bins) |-> bins[i].v]

\* bins != sorted(bins), for bins that are ints.
NotSorted(bins) == IntsOf(bins) # sorted(IntsOf(bins))

\* Section B for one media type, lines 664-704.
BinsSanity(media_type, rules) ==
    IF ~rules.has_bins THEN <<>>
    ELSE IF rules.bins_m = <<>>
    THEN <<SanityFinding("FAIL", "POLICY_BINS_EMPTY", media_type)>>
    ELSE IF InvalidBins(rules.bins_m) # <<>>
    THEN <<SanityFinding("FAIL", "POLICY_BINS_INVALID", media_type)>>
    ELSE IF HasDuplicates(rules.bins_m)
    THEN <<SanityFinding("FAIL", "POLICY_BINS_DUPLICATE", media_type)>>
    ELSE IF NotSorted(rules.bins_m)
    THEN <<SanityFinding("FAIL", "POLICY_BINS_UNSORTED", media_type)>>
    ELSE <<>>

\* media_rules.items() keeps the order of _load_policy's defaults.
MediaOrder == <<"sfp28_25g", "qsfp28_100g", "rj45_cat6a">>

RECURSIVE AllBinsSanity(_, _)
AllBinsSanity(media_rules, i) ==
    IF i > Len(MediaOrder) THEN <<>>
    ELSE (IF MediaOrder[i] \in DOMAIN media_rules
          THEN BinsSanity(MediaOrder[i], media_rules[MediaOrder[i]])
          ELSE <<>>)
         \o AllBinsSanity(media_rules, i + 1)

\* min(bins) raises TypeError: it compares a number with a str, or None with
\* anything.
MinRaises(bins) ==
    /\ Len(bins) >= 2
    /\ \/ \E i \in 1..Len(bins) : IsNone(bins[i])
       \/ /\ \E i \in 1..Len(bins) : IsNumber(bins[i])
          /\ \E i \in 1..Len(bins) : bins[i].kind = "str"

\* min(bins) when it does not raise.
MinOf(bins) ==
    IF \A i \in 1..Len(bins) : IsNumber(bins[i])
    THEN CHOOSE b \in {bins[i] : i \in 1..Len(bins)} :
             \A i \in 1..Len(bins) : Scaled(b) <= Scaled(bins[i])
    ELSE bins[1]

\* Section C for one optical media type, lines 710-741.
DacSanity(media_type, rules) ==
    LET bins == IF rules.has_bins THEN rules.bins_m ELSE <<>>
        dac_max == rules.dac_max_m
    IN  IF IsNone(dac_max) /\ bins # <<>>
        THEN IF MinRaises(bins) THEN Raises
             ELSE Returns(<<SanityFinding("WARN", "POLICY_DAC_MAX_MISSING", media_type)>>)
        ELSE IF ~IsNone(dac_max)
        THEN IF ~IsInstanceInt(dac_max) \/ dac_max.v <= 0
             THEN Returns(<<SanityFinding("FAIL", "POLICY_DAC_MAX_INVALID", media_type)>>)
             ELSE IF bins # <<>>
             THEN IF MinRaises(bins) \/ ~IsNumber(MinOf(bins)) THEN Raises
                  ELSE IF Scaled(dac_max) < Scaled(MinOf(bins))
                  THEN Returns(<<SanityFinding("WARN", "POLICY_DAC_MAX_LT_SMALLEST_BIN",
                                                media_type)>>)
                  ELSE Returns(<<>>)
             ELSE Returns(<<>>)
        ELSE Returns(<<>>)

OpticalMediaTypes == <<"sfp28_25g", "qsfp28_100g">>

RECURSIVE AllDacSanity(_, _)
AllDacSanity(media_rules, i) ==
    IF i > Len(OpticalMediaTypes) THEN Returns(<<>>)
    ELSE Then(IF OpticalMediaTypes[i] \in DOMAIN media_rules
              THEN DacSanity(OpticalMediaTypes[i], media_rules[OpticalMediaTypes[i]])
              ELSE Returns(<<>>),
              AllDacSanity(media_rules, i + 1))

\* Section D, lines 743-753.
RECURSIVE MediaPresence(_, _)
MediaPresence(media_rules, i) ==
    IF i > Len(MediaOrder) THEN <<>>
    ELSE (IF MediaOrder[i] \notin DOMAIN media_rules
          THEN <<SanityFinding("WARN", "POLICY_MEDIA_MISSING_DEFAULTED", MediaOrder[i])>>
          ELSE <<>>)
         \o MediaPresence(media_rules, i + 1)

\* Section E, lines 755-765.
Rj45BinsSanity(media_rules) ==
    IF "rj45_cat6a" \notin DOMAIN media_rules THEN <<>>
    ELSE LET rules == media_rules["rj45_cat6a"]
             rj45_bins == IF rules.has_bins THEN rules.bins_m ELSE <<>>
             over_100m == SelectSeq(rj45_bins, LAMBDA b : IsInstanceInt(b) /\ b.v > Rj45MaxM)
         IN  IF over_100m # <<>>
             THEN <<SanityFinding("WARN", "POLICY_RJ45_BINS_GT_100M", "rj45_cat6a")>>
             ELSE <<>>

\* Section F for one key of defaults, lines 768-786.
DefaultSanity(key, value) ==
    IF IsNone(value) THEN <<>>
    ELSE IF ~IsInstanceInt(value)
    THEN <<SanityFinding("FAIL", "POLICY_DEFAULT_TYPE", key)>>
    ELSE IF value.v < 0
    THEN <<SanityFinding("FAIL", "POLICY_DEFAULT_NEGATIVE", key)>>
    ELSE <<>>

DefaultsSanity(p) ==
    DefaultSanity("defaults.nodes_25g_per_node", p.defaults.nodes_25g_per_node)
        \o DefaultSanity("defaults.mgmt_rj45_per_node", p.defaults.mgmt_rj45_per_node)
        \o DefaultSanity("defaults.tor_uplink_qsfp28_per_tor",
                         p.defaults.tor_uplink_qsfp28_per_tor)

\* Section G, lines 788-808.
RedundancySanity(p) ==
    (IF p.redundancy.node_dual_homing.kind \notin {"absent", "bool"}
     THEN <<SanityFinding("FAIL", "POLICY_REDUNDANCY_INVALID", "redundancy.node_dual_homing")>>
     ELSE <<>>)
    \o (IF /\ p.redundancy.tor_uplinks_min.kind # "absent"
           /\ (~IsInstanceInt(p.redundancy.tor_uplinks_min)
                  \/ p.redundancy.tor_uplinks_min.v < 0)
        THEN <<SanityFinding("FAIL", "POLICY_REDUNDANCY_INVALID", "redundancy.tor_uplinks_min")>>
        ELSE <<>>)

\* Section H, lines 810-836.
OversubSanity(p) ==
    LET ratio == p.oversubscription.max_leaf_to_spine_ratio IN
    IF ratio.kind = "absent"
    THEN <<SanityFinding("WARN", "POLICY_OVERSUB_DEFAULTED",
                         "oversubscription.max_leaf_to_spine_ratio")>>
    ELSE IF FloatRaises(ratio) \/ Scaled(ratio) <= 0
    THEN <<SanityFinding("FAIL", "POLICY_OVERSUB_INVALID",
                         "oversubscription.max_leaf_to_spine_ratio")>>
    ELSE <<>>

\* Section I for one field of heuristics, lines 838-862; least is the bound
\* in 1/ValScale and strict tells whether the value must exceed it.
HeuristicSanity(key, value, least, strict) ==
    IF value.kind = "absent" THEN <<>>
    ELSE IF \/ FloatRaises(value)
            \/ (strict /\ ~(Scaled(value) > least))
            \/ (~strict /\ ~(Scaled(value) >= least))
    THEN <<SanityFinding("FAIL", "POLICY_HEURISTICS_INVALID", key)>>
    ELSE <<>>

HeuristicsSanity(p) ==
    HeuristicSanity("heuristics.same_rack_leaf_to_node_m",
                    p.heuristics.same_rack_leaf_to_node_m, 0, TRUE)
        \o HeuristicSanity("heuristics.adjacent_rack_leaf_to_spine_m",
                           p.heuristics.adjacent_rack_leaf_to_spine_m, 0, TRUE)
        \o HeuristicSanity("heuristics.non_adjacent_rack_leaf_to_spine_m",
                           p.heuristics.non_adjacent_rack_leaf_to_spine_m, 0, TRUE)
        \o HeuristicSanity("heuristics.tile_m", p.heuristics.tile_m, 0, TRUE)
        \o HeuristicSanity("heuristics.slack_factor", p.heuristics.slack_factor,
                           ValScale, FALSE)

\* validate_policy_sanity(policy): the findings, or raised when an exception
\* leaves the function.
validate_policy_sanity(p) ==
    Then(Returns(SparesFractionSanity(p) \o AllBinsSanity(p.media_rules, 1)),
         Then(AllDacSanity(p.media_rules, 1),
              Returns(MediaPresence(p.media_rules, 1) \o Rj45BinsSanity(p.media_rules)
                           \o DefaultsSanity(p) \o RedundancySanity(p) \o OversubSanity(p)
                           \o HeuristicsSanity(p))))

\* Bin lists: valid, empty, unsorted, with duplicates, with a zero, a
\* negative, a float, a str and a null, and with a bin above 100 m.
SanityBinLists ==
    {<<>>, <<IntVal(1), IntVal(3), IntVal(5)>>, <<IntVal(3), IntVal(1)>>, <<IntVal(1), IntVal(1)>>,
     <<IntVal(3), IntVal(3), IntVal(1)>>, <<IntVal(0), IntVal(1)>>, <<IntVal(3), IntVal(0 - 1), IntVal(3)>>,
     <<FloatVal(15), IntVal(3)>>, <<IntVal(5), FloatVal(30)>>, <<StrVal>>, <<IntVal(3), StrVal>>,
     <<NoneVal, IntVal(3)>>, <<IntVal(5)>>, <<IntVal(1), IntVal(3), IntVal(150)>>}

SanityRules ==
    {SanityRule(FALSE, <<>>, d) : d \in {Absent, IntVal(3)}}
        \cup {SanityRule(TRUE, b, d) : b \in SanityBinLists, d \in {Absent, IntVal(3), IntVal(0), StrVal}}

SanityMediaRules ==
    {[m \in {"sfp28_25g"} |-> r] : r \in SanityRules}
        \cup {[m \in {"sfp28_25g", "qsfp28_100g", "rj45_cat6a"} |->
                 IF m = "sfp28_25g" THEN r
                 ELSE IF m = "qsfp28_100g" THEN SanityRule(TRUE, <<IntVal(1), IntVal(3)>>, IntVal(3))
                 ELSE SanityRule(TRUE, b, IntVal(100))] :
                 r \in SanityRules, b \in {<<IntVal(1), IntVal(3)>>, <<IntVal(150), IntVal(1)>>, <<StrVal>>}}

\* The other sections of the policy: the built-in defaults, and a policy
\* that each of the sections A and F to I objects to.
SanityRest ==
    {[defaults |-> [spares_fraction |-> FloatVal(1), nodes_25g_per_node |-> IntVal(2),
                    mgmt_rj45_per_node |-> IntVal(1), tor_uplink_qsfp28_per_tor |-> IntVal(4)],
      redundancy |-> [node_dual_homing |-> BoolVal(0), tor_uplinks_min |-> IntVal(2)],
      oversubscription |-> [max_leaf_to_spine_ratio |-> FloatVal(40)],
      heuristics |-> [same_rack_leaf_to_node_m |-> IntVal(2),
                      adjacent_rack_leaf_to_spine_m |-> IntVal(10),
                      non_adjacent_rack_leaf_to_spine_m |-> IntVal(30),
                      tile_m |-> Absent, slack_factor |-> FloatVal(12)]],
     [defaults |-> [spares_fraction |-> FloatVal(15), nodes_25g_per_node |-> IntVal(0 - 1),
                    mgmt_rj45_per_node |-> FloatVal(10), tor_uplink_qsfp28_per_tor |-> NoneVal],
      redundancy |-> [node_dual_homing |-> IntVal(1), tor_uplinks_min |-> IntVal(0 - 1)],
      oversubscription |-> [max_leaf_to_spine_ratio |-> IntVal(0)],
      heuristics |-> [same_rack_leaf_to_node_m |-> IntVal(0),
                      adjacent_rack_leaf_to_spine_m |-> StrVal,
                      non_adjacent_rack_leaf_to_spine_m |-> Absent,
                      tile_m |-> IntVal(1), slack_factor |-> FloatVal(9)]],
     [defaults |-> [spares_fraction |-> StrVal, nodes_25g_per_node |-> Absent,
                    mgmt_rj45_per_node |-> IntVal(1), tor_uplink_qsfp28_per_tor |-> IntVal(4)],
      redundancy |-> [node_dual_homing |-> Absent, tor_uplinks_min |-> Absent],
      oversubscription |-> [max_leaf_to_spine_ratio |-> Absent],
      heuristics |-> [same_rack_leaf_to_node_m |-> Absent,
                      adjacent_rack_leaf_to_spine_m |-> Absent,
                      non_adjacent_rack_leaf_to_spine_m |-> Absent,
                      tile_m |-> Absent, slack_factor |-> Absent]]}

SanityPolicy(rest, media_rules) ==
    [defaults |-> rest.defaults, redundancy |-> rest.redundancy,
     oversubscription |-> rest.oversubscription, heuristics |-> rest.heuristics,
     media_rules |-> media_rules]

SanityPolicies == {SanityPolicy(rest, mr) : rest \in SanityRest, mr \in SanityMediaRules}

InitPolicy ==
    /\ mode = "policy"
    /\ pc = "start"
    /\ policy \in SanityPolicies
    /\ topology = Idle /\ nodes = Idle /\ site = Idle
    /\ findings = <<>>
    /\ ReconIdle /\ GeomIdle /\ OrchIdle /\ PassIdle /\ BomIdle

\* One call of validate_policy_sanity.
ValidatePolicySanity ==
    /\ mode = "policy" /\ pc = "start"
    /\ LET r == validate_policy_sanity(policy)
       IN  /\ findings' = r.f
           /\ pc' = IF r.raised THEN "raised" ELSE "returned"
    /\ UNCHANGED <<mode, validationVars, reconVars, geomVars, orchVars, passVars, bomVars>>

NextPolicy == ValidatePolicySanity

SpecPolicy == InitPolicy /\ [][NextPolicy]_vars

PolicyCalled == mode = "policy" /\ pc # "start"

BinsCodes ==
    {"POLICY_BINS_EMPTY", "POLICY_BINS_INVALID", "POLICY_BINS_DUPLICATE",
     "POLICY_BINS_UNSORTED"}

\* The bins findings about a media type.
BinsFindings(media_type) ==
    SelectSeq(findings, LAMBDA f : f.code \in BinsCodes /\ f.context.key = media_type)

PositiveInt(b) == b.kind = "int" /\ b.v > 0

\* The code the statement gives a bin list, "" for none.
BinsCodeAsStated(bins) ==
    IF bins = <<>> THEN "POLICY_BINS_EMPTY"
    ELSE IF \E i \in 1..Len(bins) : ~PositiveInt(bins[i]) THEN "POLICY_BINS_INVALID"
    ELSE IF \E i, j \in 1..Len(bins) : i # j /\ bins[i].v = bins[j].v
    THEN "POLICY_BINS_DUPLICATE"
    ELSE IF \E i \in 1..(Len(bins) - 1) : bins[i].v >= bins[i + 1].v
    THEN "POLICY_BINS_UNSORTED"
    ELSE ""

BinsAsStated(media_type) ==
    LET code == BinsCodeAsStated(policy.media_rules[media_type].bins_m)
        f == BinsFindings(media_type)
    IN  /\ Len(f) <= 1
        /\ Len(f) = 0 <=> code = ""
        /\ \A i \in 1..Len(f) : f[i].code = code /\ f[i].severity = "FAIL"

\* C19: for each media type that declares bins_m, validate_policy_sanity
\* emits at most one bins finding, chosen in the priority order
\* POLICY_BINS_EMPTY, _INVALID, _DUPLICATE, _UNSORTED (all FAIL), and none iff
\* the list is non-empty, of positive integers and strictly ascending.
C19_BinsFindingByPriority ==
    PolicyCalled =>
        \A media_type \in DOMAIN policy.media_rules :
            policy.media_rules[media_type].has_bins => BinsAsStated(media_type)

\* What does hold: a call that returns has the stated bins findings.
BinsFindingsWhenReturned ==
    (PolicyCalled /\ pc = "returned") =>
        \A media_type \in DOMAIN policy.media_rules :
            policy.media_rules[media_type].has_bins => BinsAsStated(media_type)

\* SFP28 bins [3, "a"] with dac_max_m 3: min(bins) raises TypeError after
\* POLICY_BINS_INVALID was appended, and no finding is returned.
PolicyBinsTypeError ==
    /\ PolicyCalled /\ pc = "raised"
    /\ policy.media_rules["sfp28_25g"] = SanityRule(TRUE, <<IntVal(3), StrVal>>, IntVal(3))
    /\ findings = <<>>

(***************************************************************************)
(* The remaining manifest passes and the seven passes in any order         *)
(***************************************************************************)
\* next((r for r in topology.racks if r.rack_id == node.rack_id), None):
\* the index of the first such rack, 0 for None.
RackIndexOf(t, rack_id) ==
    IF \E i \in 1..Len(t.racks) : t.racks[i].rack_id = rack_id
    THEN CHOOSE i \in 1..Len(t.racks) :
             /\ t.racks[i].rack_id = rack_id
             /\ \A j \in 1..(i - 1) : t.racks[j].rack_id # rack_id
    ELSE 0

\* A ToR without SFP28 ports passes for an SFP28 NIC.
NicCompatibilityAnyTor(t, ts, node, nic) ==
    IF nic.type = "SFP28"
    THEN IF RackIndexOf(t, node.rack_id) = 0
         THEN <<PassFinding("FAIL", "NIC_COMPATIBILITY_NO_RACK",
                            [node_id |-> node.id, nic_type |-> nic.type])>>
         ELSE LET rack == t.racks[RackIndexOf(t, node.rack_id)] IN
              IF ~TorKnown(ts, rack.tor_id)
              THEN <<PassFinding("FAIL", "NIC_COMPATIBILITY_SFP28",
                                 [node_id |-> node.id, tor_id |-> rack.tor_id,
                                  nic_type |-> nic.type])>>
              ELSE <<>>
    ELSE IF nic.type = "QSFP28"
    THEN <<PassFinding("FAIL", "NIC_COMPATIBILITY_QSFP28_UNSUPPORTED",
                       [node_id |-> node.id, nic_type |-> nic.type])>>
    ELSE IF nic.type = "RJ45"
    THEN <<PassFinding("WARN", "NIC_COMPATIBILITY_RJ45_UNMODELED",
                       [node_id |-> node.id, nic_type |-> nic.type])>>
    ELSE <<>>

\* Lines 239-275: the finding, if any, of one NIC.
NicCompatibility(t, ts, node, nic) ==
    IF nic.type = "SFP28"
    THEN IF RackIndexOf(t, node.rack_id) = 0
         THEN <<PassFinding("FAIL", "NIC_COMPATIBILITY_NO_RACK",
                            [node_id |-> node.id, nic_type |-> nic.type])>>
         ELSE LET rack == t.racks[RackIndexOf(t, node.rack_id)] IN
              IF ~TorKnown(ts, rack.tor_id) \/ ts[rack.tor_id].sfp28_total = 0
              THEN <<PassFinding("FAIL", "NIC_COMPATIBILITY_SFP28",
                                 [node_id |-> node.id, tor_id |-> rack.tor_id,
                                  nic_type |-> nic.type])>>
              ELSE <<>>
    ELSE IF nic.type = "QSFP28"
    THEN <<PassFinding("FAIL", "NIC_COMPATIBILITY_QSFP28_UNSUPPORTED",
                       [node_id |-> node.id, nic_type |-> nic.type])>>
    ELSE IF nic.type = "RJ45"
    THEN <<PassFinding("WARN", "NIC_COMPATIBILITY_RJ45_UNMODELED",
                       [node_id |-> node.id, nic_type |-> nic.type])>>
    ELSE <<>>

RECURSIVE NodeCompatibility(_, _, _, _)
NodeCompatibility(t, ts, node, j) ==
    IF j > Len(node.nics) THEN <<>>
    ELSE NicCompatibility(t, ts, node, node.nics[j]) \o NodeCompatibility(t, ts, node, j + 1)

RECURSIVE CompatibilityLoop(_, _, _, _)
CompatibilityLoop(t, ts, ns, i) ==
    IF i > Len(ns) THEN <<>>
    ELSE NodeCompatibility(t, ts, ns[i], 1) \o CompatibilityLoop(t, ts, ns, i + 1)

\* validate_compatibility(topology, tors, nodes, policy)
validate_compatibility(t, ts, ns) == CompatibilityLoop(t, ts, ns, 1)

\* Lines 365-381.
RECURSIVE TorCompleteness(_, _, _)
TorCompleteness(t, ts, i) ==
    IF i > Len(t.racks) THEN <<>>
    ELSE LET rack == t.racks[i] IN
         (IF ~TorKnown(ts, rack.tor_id)
          THEN <<PassFinding("FAIL", "COMPLETENESS_MISSING_TOR",
                             [rack_id |-> rack.rack_id, tor_id |-> rack.tor_id])>>
          ELSE IF ts[rack.tor_id].rack_id # rack.rack_id
          THEN <<PassFinding("FAIL", "COMPLETENESS_TOR_RACK_MISMATCH",
                             [tor_id |-> rack.tor_id, tor_rack_id |-> ts[rack.tor_id].rack_id,
                              topology_rack_id |-> rack.rack_id])>>
          ELSE <<>>)
         \o TorCompleteness(t, ts, i + 1)

\* The site is left out of the racks a node may stand in.
ValidRackIdsTopologyOnly(t, s) == {t.racks[i].rack_id : i \in 1..Len(t.racks)}

\* topology_rack_ids | site_rack_ids
ValidRackIds(t, s) ==
    {t.racks[i].rack_id : i \in 1..Len(t.racks)}
        \cup (IF SiteMissing(s) THEN {} ELSE {s.racks[i].id : i \in 1..Len(s.racks)})

\* Lines 383-395.
RECURSIVE NodeCompleteness(_, _, _, _)
NodeCompleteness(t, s, ns, i) ==
    IF i > Len(ns) THEN <<>>
    ELSE (IF ns[i].rack_id \notin ValidRackIds(t, s)
          THEN <<PassFinding("FAIL", "COMPLETENESS_NODE_RACK_MISSING",
                             [node_id |-> ns[i].id, rack_id |-> ns[i].rack_id])>>
          ELSE <<>>)
         \o NodeCompleteness(t, s, ns, i + 1)

\* Lines 397-410; TopologyRec requires the spine and its ports.
SpineCompleteness(t) ==
    IF t.spine.qsfp28_total <= 0
    THEN <<PassFinding("FAIL", "COMPLETENESS_SPINE_NO_PORTS", [spine_id |-> t.spine.id])>>
    ELSE <<>>

\* validate_completeness(topology, tors, nodes, site, policy)
validate_completeness(t, ts, ns, s) ==
    TorCompleteness(t, ts, 1) \o NodeCompleteness(t, s, ns, 1) \o SpineCompleteness(t)

\* bool(x) of a policy value; the strs drawn are not empty.
Truthy(x) == ~IsNone(x) /\ (IsNumber(x) => x.v # 0)

\* The QSFP28 NICs are left out of a node's total.
RECURSIVE DualHomingSfp28Only(_, _, _)
DualHomingSfp28Only(ns, p, i) ==
    IF i > Len(ns) THEN <<>>
    ELSE LET total_nics == IF ns[i].nics # <<>>
                           THEN NicCount(ns[i].nics, {"SFP28"}, 1)
                           ELSE p.defaults.nodes_25g_per_node.v
         IN  (IF total_nics % 2 # 0
              THEN <<PassFinding("FAIL", "REDUNDANCY_DUAL_HOMING",
                                 [node_id |-> ns[i].id, nic_count |-> total_nics])>>
              ELSE <<>>)
             \o DualHomingSfp28Only(ns, p, i + 1)

\* Lines 601-613.
RECURSIVE DualHoming(_, _, _)
DualHoming(ns, p, i) ==
    IF i > Len(ns) THEN <<>>
    ELSE LET total_nics == IF ns[i].nics # <<>>
                           THEN NicCount(ns[i].nics, {"SFP28", "QSFP28"}, 1)
                           ELSE p.defaults.nodes_25g_per_node.v
         IN  (IF total_nics % 2 # 0
              THEN <<PassFinding("FAIL", "REDUNDANCY_DUAL_HOMING",
                                 [node_id |-> ns[i].id, nic_count |-> total_nics])>>
              ELSE <<>>)
             \o DualHoming(ns, p, i + 1)

\* Lines 615-632.
RECURSIVE TorUplinksMin(_, _, _)
TorUplinksMin(t, min_uplinks, i) ==
    IF i > Len(t.racks) THEN <<>>
    ELSE (IF t.racks[i].uplinks_qsfp28 < min_uplinks
          THEN <<PassFinding("FAIL", "REDUNDANCY_TOR_UPLINKS",
                             [rack_id |-> t.racks[i].rack_id,
                              uplinks |-> t.racks[i].uplinks_qsfp28,
                              minimum |-> min_uplinks,
                              shortfall |-> min_uplinks - t.racks[i].uplinks_qsfp28])>>
          ELSE <<>>)
         \o TorUplinksMin(t, min_uplinks, i + 1)

\* validate_redundancy(topology, tors, nodes, policy), for a policy whose
\* redundancy values have the types _load_policy's defaults have.
validate_redundancy(t, ns, p) ==
    (IF Truthy(p.redundancy.node_dual_homing) THEN DualHoming(ns, p, 1) ELSE <<>>)
    \o (IF Truthy(p.redundancy.tor_uplinks_min)
        THEN TorUplinksMin(t, p.redundancy.tor_uplinks_min.v, 1)
        ELSE <<>>)

\* The keys validate_ports and validate_oversubscription read, as numbers.
ManifestPolicy(p) ==
    [nodes_25g_per_node |-> p.defaults.nodes_25g_per_node.v,
     max_leaf_to_spine_ratio |-> Scaled(p.oversubscription.max_leaf_to_spine_ratio)
                                     \div ValScale]

BinsOfRule(rules) == IF rules.has_bins THEN IntsOf(rules.bins_m) ELSE <<>>

\* The keys validate_lengths reads, in the units of the geometry.
LengthsPolicy(p) ==
    [same_rack_leaf_to_node_m |->
         (Scaled(p.heuristics.same_rack_leaf_to_node_m) * DistScale) \div ValScale,
     slack_factor |-> (Scaled(p.heuristics.slack_factor) * SlackScale) \div ValScale,
     tile_m |-> IF IsNone(p.heuristics.tile_m) THEN 1 ELSE p.heuristics.tile_m.v,
     media_rules_is_dict |-> TRUE,
     sfp28_25g |-> MediaRule(p.media_rules["sfp28_25g"].dac_max_m.v,
                             BinsOfRule(p.media_rules["sfp28_25g"])),
     qsfp28_100g |-> MediaRule(p.media_rules["qsfp28_100g"].dac_max_m.v,
                               BinsOfRule(p.media_rules["qsfp28_100g"])),
     rj45_bins |-> BinsOfRule(p.media_rules["rj45_cat6a"])]

\* The passes in the order of lines 905-911.
PassOrder ==
    <<"policy_sanity", "ports", "compatibility", "oversubscription", "completeness",
      "lengths", "redundancy">>

PassNames == {PassOrder[i] : i \in 1..Len(PassOrder)}

\* What a pass returns on the given manifests and policy.
PassResult(name, t, ts, ns, s, p) ==
    IF name = "policy_sanity" THEN validate_policy_sanity(p)
    ELSE IF name = "ports" THEN Returns(validate_ports(t, ts, ns, ManifestPolicy(p)))
    ELSE IF name = "compatibility" THEN Returns(validate_compatibility(t, ts, ns))
    ELSE IF name = "oversubscription"
    THEN Returns(validate_oversubscription(t, ts, ns, ManifestPolicy(p)))
    ELSE IF name = "completeness" THEN Returns(validate_completeness(t, ts, ns, s))
    ELSE IF name = "lengths" THEN validate_lengths(t, ns, s, LengthsPolicy(p))
    ELSE Returns(validate_redundancy(t, ns, p))

\* A pass that sorted the bins it selects from in place.
PolicyWithBinsSortedInPlace(name, p) ==
    IF name = "lengths"
    THEN [p EXCEPT !.media_rules["sfp28_25g"].bins_m =
                       [i \in 1..Len(@) |-> IntVal(sorted(IntsOf(@))[i])]]
    ELSE p

\* The policy after a pass: no pass assigns into it (select_length_bin
\* iterates over sorted(bins_m), a copy).
PolicyAfterPass(name, p) == p

\* all_findings of lines 903-911, from the findings the passes returned.
RECURSIVE AllFindings(_, _)
AllFindings(pf, i) ==
    IF i > Len(PassOrder) THEN <<>> ELSE pf[PassOrder[i]] \o AllFindings(pf, i + 1)

InterleaveTopologies ==
    {Topology(<<Rack("rack-1", "tor-1", 1), Rack("rack-2", "tor-x", 0)>>, 32, 2)}

InterleaveTors ==
    {[id \in {"tor-1", "tor-2"} |->
        IF id = "tor-1" THEN Tor("tor-1", "rack-1", 2, 2) ELSE Tor("tor-2", "rack-1", 4, 1)]}

InterleaveNodeLists ==
    {<<Node("node-1", "rack-1", <<NicN("SFP28", 3), NicN("RJ45", 1)>>),
       Node("node-2", "rack-9", <<NicN("QSFP28", 1), NicN("SFP28", 1)>>)>>,
     <<Node("node-1", "rack-1", <<NicN("RJ45", 1)>>), Node("node-2", "rack-2", <<>>)>>}

InterleaveSites ==
    {NoSite,
     [is_none |-> FALSE, racks |-> <<SiteRack("rack-1", <<6, 6>>), SiteRack("rack-2", NoGrid)>>],
     [is_none |-> FALSE, racks |-> <<SiteRack("rack-1", NoGrid)>>]}

InterleaveMediaRules ==
    {[m \in {"sfp28_25g", "qsfp28_100g", "rj45_cat6a"} |->
         IF m = "sfp28_25g" THEN SanityRule(TRUE, b, IntVal(3))
         ELSE IF m = "qsfp28_100g" THEN SanityRule(TRUE, <<IntVal(1), IntVal(3)>>, IntVal(3))
         ELSE SanityRule(TRUE, <<IntVal(1), IntVal(3), IntVal(150)>>, IntVal(100))] :
         b \in {<<IntVal(1), IntVal(3), IntVal(5)>>, <<IntVal(2), IntVal(1)>>}}

InterleaveRest ==
    [defaults |-> [spares_fraction |-> FloatVal(1), nodes_25g_per_node |-> IntVal(1),
                   mgmt_rj45_per_node |-> IntVal(1), tor_uplink_qsfp28_per_tor |-> IntVal(4)],
     redundancy |-> [node_dual_homing |-> BoolVal(1), tor_uplinks_min |-> IntVal(2)],
     oversubscription |-> [max_leaf_to_spine_ratio |-> FloatVal(4 * ValScale)],
     heuristics |-> [same_rack_leaf_to_node_m |-> IntVal(2),
                     adjacent_rack_leaf_to_spine_m |-> IntVal(10),
                     non_adjacent_rack_leaf_to_spine_m |-> IntVal(30),
                     tile_m |-> Absent, slack_factor |-> FloatVal(12)]]

InterleavePolicies == {SanityPolicy(InterleaveRest, mr) : mr \in InterleaveMediaRules}

InitInterleave ==
    /\ mode = "interleave"
    /\ pc = "running"
    /\ topology \in InterleaveTopologies
    /\ tors \in InterleaveTors
    /\ nodes \in InterleaveNodeLists
    /\ site \in InterleaveSites
    /\ policy \in InterleavePolicies
    /\ done = {}
    /\ pass_findings = [name \in PassNames |-> <<>>]
    /\ findings = <<>>
    /\ report = Idle
    /\ files = Idle /\ disk = Idle /\ loaders = Idle
    /\ ReconIdle /\ GeomIdle /\ BomIdle

\* One pass, run when the passes in done have run: its findings are kept
\* under its name and appended to those gathered so far.
RunPass(name) ==
    /\ mode = "interleave" /\ pc = "running"
    /\ name \notin done
    /\ LET r == PassResult(name, topology, tors, nodes, site, policy)
       IN  IF r.raised
           THEN /\ pc' = "raised"
                /\ UNCHANGED <<done, pass_findings, findings, policy>>
           ELSE /\ pc' = pc
                /\ done' = done \cup {name}
                /\ pass_findings' = [pass_findings EXCEPT ![name] = r.f]
                /\ findings' = findings \o r.f
                /\ policy' = PolicyAfterPass(name, policy)
    /\ UNCHANGED <<mode, topology, nodes, site, tors, report, files, disk, loaders,
                   reconVars, geomVars, bomVars>>

\* Lines 903-926: the findings of the passes in the order of lines 905-911,
\* and the summary.
Collect ==
    /\ mode = "interleave" /\ pc = "running"
    /\ done = PassNames
    /\ report' = Report(topology, nodes, AllFindings(pass_findings, 1))
    /\ pc' = "returned"
    /\ UNCHANGED <<mode, findings, validationVars, passVars, pass_findings, files, disk,
                   loaders, reconVars, geomVars, bomVars>>

NextInterleave ==
    \/ \E name \in PassNames : RunPass(name)
    \/ Collect

SpecInterleave == InitInterleave /\ [][NextInterleave]_vars

\* How often x occurs in the sequence f.
Occurrences(f, x) == Cardinality({i \in 1..Len(f) : f[i] = x})

\* The same multiset of findings.
SameFindings(f, g) ==
    /\ Len(f) = Len(g)
    /\ \A i \in 1..Len(f) : Occurrences(f, f[i]) = Occurrences(g, f[i])

\* The findings of the passes run one after the other in the listed order.
RECURSIVE InOrder(_)
InOrder(i) ==
    IF i > Len(PassOrder) THEN <<>>
    ELSE PassResult(PassOrder[i], topology, tors, nodes, site, policy).f \o InOrder(i + 1)

ManifestRackLists ==
    {<<Rack("rack-1", t1, u)>> : t1 \in {"tor-1", "tor-x"}, u \in {0, 1, 2, 3}}
        \cup {<<Rack("rack-1", t1, 2), Rack(r2, t2, u)>> :
                t1 \in {"tor-1", "tor-x"}, r2 \in {"rack-1", "rack-2"},
                t2 \in {"tor-1", "tor-2"}, u \in {1, 3}}

ManifestTopologies == {Topology(r, c, 2) : r \in ManifestRackLists, c \in {0, 32}}

\* tors: tor-1 in the rack the topology states or in another one.
ManifestTors ==
    {[id \in {"tor-1", "tor-2"} |->
        IF id = "tor-1" THEN Tor("tor-1", r, s, 2) ELSE Tor("tor-2", "rack-2", 0, 1)] :
        r \in {"rack-1", "rack-9"}, s \in {0, 4}}

ManifestNicLists ==
    {<<>>, <<NicN("RJ45", 1)>>, <<NicN("SFP28", 1)>>, <<NicN("QSFP28", 1), NicN("SFP28", 2)>>,
     <<NicN("SFP28", 2), NicN("RJ45", 1), NicN("SFP28", 2)>>}

\* nodes: in a topology rack, in a rack only the site has, in no rack.
ManifestNodeLists ==
    {<<Node("node-1", r, n)>> : r \in {"rack-1", "rack-7", "rack-9"}, n \in ManifestNicLists}
        \cup {<<Node("node-1", "rack-2", n), Node("node-2", r, <<NicN("SFP28", 1)>>)>> :
                r \in {"rack-1", "rack-7"}, n \in ManifestNicLists}

ManifestSites ==
    {NoSite,
     [is_none |-> FALSE, racks |-> <<SiteRack("rack-1", <<0, 0>>), SiteRack("rack-7", NoGrid)>>]}

\* The policy keys validate_redundancy reads: the flag, the minimum (a
\* number, or None for a key the policy file sets to null) and the default.
ManifestPolicies ==
    {[redundancy |-> [node_dual_homing |-> BoolVal(h), tor_uplinks_min |-> u],
      defaults |-> [nodes_25g_per_node |-> IntVal(d)]] :
        h \in {0, 1}, u \in {IntVal(0), IntVal(2), NoneVal}, d \in {1, 2}}

InitManifest ==
    /\ mode = "manifest"
    /\ pc = "start"
    /\ topology \in ManifestTopologies
    /\ tors \in ManifestTors
    /\ nodes \in ManifestNodeLists
    /\ site \in ManifestSites
    /\ policy \in ManifestPolicies
    /\ done = {}
    /\ findings = <<>>
    /\ ReconIdle /\ GeomIdle /\ OrchIdle /\ BomIdle

\* One call of validate_completeness.
ValidateCompleteness ==
    /\ mode = "manifest" /\ pc = "start"
    /\ findings' = validate_completeness(topology, tors, nodes, site)
    /\ done' = {"completeness"}
    /\ pc' = "returned"
    /\ UNCHANGED <<mode, validationVars, tors, reconVars, geomVars, orchVars, bomVars>>

\* One call of validate_redundancy.
ValidateRedundancy ==
    /\ mode = "manifest" /\ pc = "start"
    /\ findings' = validate_redundancy(topology, nodes, policy)
    /\ done' = {"redundancy"}
    /\ pc' = "returned"
    /\ UNCHANGED <<mode, validationVars, tors, reconVars, geomVars, orchVars, bomVars>>

\* One call of validate_compatibility.
ValidateCompatibility ==
    /\ mode = "manifest" /\ pc = "start"
    /\ findings' = validate_compatibility(topology, tors, nodes)
    /\ done' = {"compatibility"}
    /\ pc' = "returned"
    /\ UNCHANGED <<mode, validationVars, tors, reconVars, geomVars, orchVars, bomVars>>

NextManifest == ValidateCompleteness \/ ValidateRedundancy \/ ValidateCompatibility

SpecManifest == InitManifest /\ [][NextManifest]_vars

(***************************************************************************)
(* Properties of the three passes                                          *)
(***************************************************************************)
ManifestReturned(name) == mode = "manifest" /\ pc = "returned" /\ done = {name}

\* The number of findings with the given code.
CodeCount(code) == Cardinality({k \in 1..Len(findings) : findings[k].code = code})

\* The topology racks whose ToR is not known, and those whose ToR is known
\* but stands in another rack.
RacksMissingTor == {i \in 1..Len(topology.racks) : topology.racks[i].tor_id \notin DOMAIN tors}

RacksMismatched ==
    {i \in 1..Len(topology.racks) :
        /\ topology.racks[i].tor_id \in DOMAIN tors
        /\ tors[topology.racks[i].tor_id].rack_id # topology.racks[i].rack_id}

\* The nodes whose rack is neither a topology rack nor a site rack.
NodesWithoutRack ==
    {i \in 1..Len(nodes) :
        /\ \A j \in 1..Len(topology.racks) : topology.racks[j].rack_id # nodes[i].rack_id
        /\ site.is_none \/ \A j \in 1..Len(site.racks) : site.racks[j].id # nodes[i].rack_id}

\* C21: validate_completeness emits for each topology rack exactly one of
\* FAIL COMPLETENESS_MISSING_TOR (iff its tor_id is not a known ToR), FAIL
\* COMPLETENESS_TOR_RACK_MISMATCH (iff the ToR is known and its rack_id
\* differs from the rack's) or nothing; one FAIL
\* COMPLETENESS_NODE_RACK_MISSING per node iff the node's rack_id is in
\* neither the topology racks nor the site racks; and FAIL
\* COMPLETENESS_SPINE_NO_PORTS iff the spine's qsfp28_total is <= 0.
C21_CompletenessFindings ==
    ManifestReturned("completeness") =>
        /\ \A k \in 1..Len(findings) : findings[k].severity = "FAIL"
        /\ \A i \in 1..Len(topology.racks) :
            LET rack == topology.racks[i]
                missing == PassFinding("FAIL", "COMPLETENESS_MISSING_TOR",
                                       [rack_id |-> rack.rack_id, tor_id |-> rack.tor_id])
            IN  /\ Occurrences(findings, missing)
                       = Cardinality({j \in RacksMissingTor : topology.racks[j] = rack
                                        \/ (/\ topology.racks[j].rack_id = rack.rack_id
                                            /\ topology.racks[j].tor_id = rack.tor_id)})
                /\ Cardinality({k \in 1..Len(findings) :
                                   /\ findings[k].code = "COMPLETENESS_TOR_RACK_MISMATCH"
                                   /\ findings[k].context.tor_id = rack.tor_id
                                   /\ findings[k].context.topology_rack_id = rack.rack_id
                                   /\ findings[k].context.tor_rack_id # rack.rack_id})
                       = Cardinality({j \in RacksMismatched :
                                        /\ topology.racks[j].rack_id = rack.rack_id
                                        /\ topology.racks[j].tor_id = rack.tor_id})
        /\ CodeCount("COMPLETENESS_MISSING_TOR") = Cardinality(RacksMissingTor)
        /\ CodeCount("COMPLETENESS_TOR_RACK_MISMATCH") = Cardinality(RacksMismatched)
        /\ \A i \in 1..Len(nodes) :
            Occurrences(findings, PassFinding("FAIL", "COMPLETENESS_NODE_RACK_MISSING",
                                              [node_id |-> nodes[i].id,
                                               rack_id |-> nodes[i].rack_id]))
                = (IF i \in NodesWithoutRack THEN 1 ELSE 0)
        /\ CodeCount("COMPLETENESS_NODE_RACK_MISSING") = Cardinality(NodesWithoutRack)
        /\ CodeCount("COMPLETENESS_SPINE_NO_PORTS")
               = (IF topology.spine.qsfp28_total <= 0 THEN 1 ELSE 0)
        /\ Len(findings) = Cardinality(RacksMissingTor) + Cardinality(RacksMismatched)
                               + Cardinality(NodesWithoutRack)
                               + CodeCount("COMPLETENESS_SPINE_NO_PORTS")

\* A run with a rack of an unknown ToR, a rack whose ToR stands elsewhere, a
\* node in a rack only the site has and a node in no rack, on a spine
\* without ports.
C21_Witness ==
    /\ ManifestReturned("completeness")
    /\ RacksMissingTor # {} /\ RacksMismatched # {}
    /\ ~site.is_none
    /\ \E i \in 1..Len(nodes) : nodes[i].rack_id = "rack-7" /\ i \notin NodesWithoutRack
    /\ NodesWithoutRack # {}
    /\ topology.spine.qsfp28_total = 0
    /\ [k \in 1..Len(findings) |-> findings[k].code]
           = <<"COMPLETENESS_MISSING_TOR", "COMPLETENESS_TOR_RACK_MISMATCH",
               "COMPLETENESS_NODE_RACK_MISSING", "COMPLETENESS_SPINE_NO_PORTS">>

\* The optical NIC total of a node: the counts of its SFP28 and QSFP28
\* NICs, or the policy default when it declares no NIC.
OpticalTotal(node) ==
    IF Len(node.nics) = 0 THEN policy.defaults.nodes_25g_per_node.v
    ELSE SumSeq([j \in 1..Len(node.nics) |->
                    IF node.nics[j].type = "SFP28" \/ node.nics[j].type = "QSFP28"
                    THEN node.nics[j].count ELSE 0])

NodesNotDualHomed ==
    {i \in 1..Len(nodes) :
        /\ policy.redundancy.node_dual_homing = BoolVal(1)
        /\ \E h \in 0..OpticalTotal(nodes[i]) : OpticalTotal(nodes[i]) = 2 * h + 1}

RacksBelowMinimum ==
    {i \in 1..Len(topology.racks) :
        /\ policy.redundancy.tor_uplinks_min.kind = "int"
        /\ topology.racks[i].uplinks_qsfp28 < policy.redundancy.tor_uplinks_min.v}

\* C22: validate_redundancy emits one FAIL REDUNDANCY_DUAL_HOMING per node
\* iff node_dual_homing is enabled and the node's optical NIC total (the sum
\* of its SFP28 and QSFP28 counts, or the policy default when it declares no
\* NIC) is odd, and none while the flag is off; it emits one FAIL
\* REDUNDANCY_TOR_UPLINKS per rack, with context.shortfall = tor_uplinks_min
\* - uplinks_qsfp28, iff uplinks_qsfp28 < tor_uplinks_min.
C22_RedundancyFindings ==
    ManifestReturned("redundancy") =>
        /\ \A k \in 1..Len(findings) : findings[k].severity = "FAIL"
        /\ \A i \in 1..Len(nodes) :
            /\ Occurrences(findings, PassFinding("FAIL", "REDUNDANCY_DUAL_HOMING",
                                                 [node_id |-> nodes[i].id,
                                                  nic_count |-> OpticalTotal(nodes[i])]))
                   = (IF i \in NodesNotDualHomed THEN 1 ELSE 0)
            /\ Cardinality({k \in 1..Len(findings) :
                               /\ findings[k].code = "REDUNDANCY_DUAL_HOMING"
                               /\ findings[k].context.node_id = nodes[i].id})
                   = (IF i \in NodesNotDualHomed THEN 1 ELSE 0)
        /\ policy.redundancy.node_dual_homing = BoolVal(0)
               => CodeCount("REDUNDANCY_DUAL_HOMING") = 0
        /\ \A i \in 1..Len(topology.racks) :
            LET rack == topology.racks[i] IN
            Cardinality({k \in 1..Len(findings) :
                            /\ findings[k].code = "REDUNDANCY_TOR_UPLINKS"
                            /\ findings[k].context.rack_id = rack.rack_id
                            /\ findings[k].context.uplinks = rack.uplinks_qsfp28
                            /\ findings[k].context.shortfall
                                   = policy.redundancy.tor_uplinks_min.v - rack.uplinks_qsfp28})
                = Cardinality({j \in RacksBelowMinimum :
                                 /\ topology.racks[j].rack_id = rack.rack_id
                                 /\ topology.racks[j].uplinks_qsfp28 = rack.uplinks_qsfp28})
        /\ CodeCount("REDUNDANCY_TOR_UPLINKS") = Cardinality(RacksBelowMinimum)
        /\ Len(findings) = Cardinality(NodesNotDualHomed) + Cardinality(RacksBelowMinimum)

\* Dual homing is on; a node with one QSFP28 and two SFP28 ports is
\* reported with its total of 3, and one of two racks is below the minimum.
C22_Witness ==
    /\ ManifestReturned("redundancy")
    /\ policy.redundancy.node_dual_homing = BoolVal(1)
    /\ \E i \in 1..Len(nodes) :
        /\ nodes[i].nics = <<NicN("QSFP28", 1), NicN("SFP28", 2)>>
        /\ PassFinding("FAIL", "REDUNDANCY_DUAL_HOMING",
                       [node_id |-> nodes[i].id, nic_count |-> 3]) = findings[1]
    /\ Len(topology.racks) = 2
    /\ Cardinality(RacksBelowMinimum) = 1
    /\ \E k \in 1..Len(findings) :
        findings[k].code = "REDUNDANCY_TOR_UPLINKS" /\ findings[k].context.shortfall = 1

\* The number of NIC entries of the given type a node declares.
NicEntries(node, type) == Cardinality({j \in 1..Len(node.nics) : node.nics[j].type = type})

\* The node's rack is no rack of the topology.
NodeOutsideTopology(node) ==
    \A j \in 1..Len(topology.racks) : topology.racks[j].rack_id # node.rack_id

\* The ToR of the node's rack (the first topology rack of that id) is
\* unknown or has no SFP28 port.
NodeRackWithoutSfp28(node) ==
    \E j \in 1..Len(topology.racks) :
        /\ topology.racks[j].rack_id = node.rack_id
        /\ \A k \in 1..(j - 1) : topology.racks[k].rack_id # node.rack_id
        /\ \/ topology.racks[j].tor_id \notin DOMAIN tors
           \/ tors[topology.racks[j].tor_id].sfp28_total = 0

\* The findings of the given severity and code about a node.
NodeFindings(node, severity, code) ==
    Cardinality({k \in 1..Len(findings) :
                    /\ findings[k].severity = severity /\ findings[k].code = code
                    /\ findings[k].context.node_id = node.id})

\* C23: validate_compatibility emits exactly one finding per declared NIC
\* entry that is not a satisfied SFP28 NIC: for an SFP28 NIC FAIL
\* NIC_COMPATIBILITY_NO_RACK iff the node's rack is not in the topology,
\* else FAIL NIC_COMPATIBILITY_SFP28 iff the rack's ToR is unknown or has
\* sfp28_total = 0, else nothing; FAIL NIC_COMPATIBILITY_QSFP28_UNSUPPORTED
\* for every QSFP28 NIC; WARN NIC_COMPATIBILITY_RJ45_UNMODELED for every
\* RJ45 NIC; a node that declares no NIC yields no finding.
C23_CompatibilityFindings ==
    ManifestReturned("compatibility") =>
        /\ \A i \in 1..Len(nodes) :
            LET node == nodes[i]
                no_rack == IF NodeOutsideTopology(node) THEN NicEntries(node, "SFP28") ELSE 0
                sfp28 == IF ~NodeOutsideTopology(node) /\ NodeRackWithoutSfp28(node)
                         THEN NicEntries(node, "SFP28") ELSE 0
            IN  /\ NodeFindings(node, "FAIL", "NIC_COMPATIBILITY_NO_RACK") = no_rack
                /\ NodeFindings(node, "FAIL", "NIC_COMPATIBILITY_SFP28") = sfp28
                /\ NodeFindings(node, "FAIL", "NIC_COMPATIBILITY_QSFP28_UNSUPPORTED")
                       = NicEntries(node, "QSFP28")
                /\ NodeFindings(node, "WARN", "NIC_COMPATIBILITY_RJ45_UNMODELED")
                       = NicEntries(node, "RJ45")
                /\ Cardinality({k \in 1..Len(findings) :
                                   findings[k].context.node_id = node.id})
                       = no_rack + sfp28 + NicEntries(node, "QSFP28")
                             + NicEntries(node, "RJ45")
                /\ node.nics = <<>> =>
                       \A k \in 1..Len(findings) : findings[k].context.node_id # node.id
        /\ \A k \in 1..Len(findings) :
            /\ \E i \in 1..Len(nodes) : findings[k].context.node_id = nodes[i].id
            /\ findings[k].context.nic_type
                   = (IF findings[k].code = "NIC_COMPATIBILITY_QSFP28_UNSUPPORTED"
                      THEN "QSFP28"
                      ELSE IF findings[k].code = "NIC_COMPATIBILITY_RJ45_UNMODELED"
                      THEN "RJ45" ELSE "SFP28")

\* A node with two SFP28 NICs and an RJ45 NIC in a rack whose ToR has no
\* SFP28 port, next to a node whose SFP28 NIC is satisfied or has no rack.
C23_Witness ==
    /\ ManifestReturned("compatibility")
    /\ Len(nodes) = 2
    /\ nodes[1].nics = <<NicN("SFP28", 2), NicN("RJ45", 1), NicN("SFP28", 2)>>
    /\ ~NodeOutsideTopology(nodes[1]) /\ NodeRackWithoutSfp28(nodes[1])
    /\ NodeOutsideTopology(nodes[2])
    /\ [k \in 1..Len(findings) |-> findings[k].code]
           = <<"NIC_COMPATIBILITY_SFP28", "NIC_COMPATIBILITY_RJ45_UNMODELED",
               "NIC_COMPATIBILITY_SFP28", "NIC_COMPATIBILITY_NO_RACK">>

\* A satisfied SFP28 NIC next to a QSFP28 NIC: only the latter is reported.
C23_Satisfied ==
    /\ ManifestReturned("compatibility")
    /\ Len(nodes) = 1
    /\ nodes[1].nics = <<NicN("QSFP28", 1), NicN("SFP28", 2)>>
    /\ ~NodeOutsideTopology(nodes[1]) /\ ~NodeRackWithoutSfp28(nodes[1])
    /\ Len(findings) = 1

(***************************************************************************)
(* The legacy BOM format: cabling._export_bom, _load_bom_yaml and the      *)
(* legacy branch of _normalize_bom_to_class_structure                      *)
(***************************************************************************)
\* A cable type, as the runs of characters it is spelled with.  No run
\* occurs inside another one, so one string occurs in another exactly when
\* its runs occur in a row in the other's.
Spelling(cable_type) ==
    CASE cable_type = "sfp28_25g" -> <<"sfp28", "_", "25g">>
      [] cable_type = "sfp28_25g_dac" -> <<"sfp28", "_", "25g", "_", "dac">>
      [] cable_type = "SFP28_25G_AOC" -> <<"SFP28", "_", "25G", "_", "AOC">>
      [] cable_type = "qsfp28_100g" -> <<"q", "sfp28", "_", "100g">>
      [] cable_type = "qsfp28_100g_aoc" -> <<"q", "sfp28", "_", "100g", "_", "aoc">>
      [] cable_type = "rj45_cat6a" -> <<"rj45", "_", "cat6a">>
      [] cable_type = "om4_fiber" -> <<"om4", "_", "fiber">>
      [] cable_type = "SFP28 25G DAC" -> <<"SFP28", " ", "25G", " ", "DAC">>
      [] cable_type = "SFP28 25G AOC" -> <<"SFP28", " ", "25G", " ", "AOC">>
      [] cable_type = "SFP28 25G MMF + SR" -> <<"SFP28", " ", "25G", " ", "MMF", " + ", "SR">>
      [] cable_type = "QSFP28 100G DAC" -> <<"Q", "SFP28", " ", "100G", " ", "DAC">>
      [] cable_type = "QSFP28 100G AOC" -> <<"Q", "SFP28", " ", "100G", " ", "AOC">>
      [] cable_type = "QSFP28 100G MMF + SR4"
           -> <<"Q", "SFP28", " ", "100G", " ", "MMF", " + ", "SR", "4">>
      [] cable_type = "RJ45 Cat6A" -> <<"RJ45", " ", "Cat6A">>
      [] OTHER -> <<cable_type>>

\* str.lower() of one run.
LowerRun(w) ==
    CASE w = "SFP28" -> "sfp28"
      [] w = "Q" -> "q"
      [] w = "25G" -> "25g"
      [] w = "100G" -> "100g"
      [] w = "DAC" -> "dac"
      [] w = "AOC" -> "aoc"
      [] w = "MMF" -> "mmf"
      [] w = "SR" -> "sr"
      [] w = "RJ45" -> "rj45"
      [] w = "Cat6A" -> "cat6a"
      [] OTHER -> w

\* cable_type.lower()
lower(cable_type) == [i \in 1..Len(Spelling(cable_type)) |-> LowerRun(Spelling(cable_type)[i])]

\* token in text
Contains(text, token) ==
    \E k \in 0..(Len(text) - Len(token)) : \A i \in 1..Len(token) : text[k + i] = token[i]

\* "if quantity > 10" of line 47.
MgmtThreshold == 10

\* The threshold taken as "10 or more".
infer_class_from_ten_on(cable_type, quantity) ==
    IF Contains(lower(cable_type), <<"sfp28", "_", "25g">>) THEN "leaf-node"
    ELSE IF Contains(lower(cable_type), <<"q", "sfp28", "_", "100g">>) THEN "leaf-spine"
    ELSE IF Contains(lower(cable_type), <<"rj45", "_", "cat6a">>)
    THEN IF quantity >= MgmtThreshold THEN "mgmt" ELSE "wan"
    ELSE "unknown"

\* _infer_class_from_cable_type(cable_type, quantity)
infer_class_from_cable_type(cable_type, quantity) ==
    IF Contains(lower(cable_type), <<"sfp28", "_", "25g">>) THEN "leaf-node"
    ELSE IF Contains(lower(cable_type), <<"q", "sfp28", "_", "100g">>) THEN "leaf-spine"
    ELSE IF Contains(lower(cable_type), <<"rj45", "_", "cat6a">>)
    THEN IF quantity > MgmtThreshold THEN "mgmt" ELSE "wan"
    ELSE "unknown"

\* A key of a length_bins dict: an int, a str of digits (both with the
\* number v), or another str.
DigitsVal(v) == Val("digits", v)

\* int(length_bin) raises ValueError.
IntRaises(key) == key.kind \notin {"int", "digits"}

\* int(length_bin)
IntOf(key) == key.v

\* One entry of the flat map: cable_type -> length_bins.
LegacyEntry(cable_type, is_dict, length_bins) ==
    [cable_type |-> cable_type, is_dict |-> is_dict, length_bins |-> length_bins]

\* One entry of the class -> cable_type -> length_bin -> count structure.
ClassEntry(class, cable_type, length_bin, n) ==
    [class |-> class, cable_type |-> cable_type, length_bin |-> length_bin, n |-> n]

\* result[class_name][cable_type][length_bin_int] = quantity
AssignEntry(res, e) ==
    IF \E i \in 1..Len(res) :
           /\ res[i].class = e.class /\ res[i].cable_type = e.cable_type
           /\ res[i].length_bin = e.length_bin
    THEN [i \in 1..Len(res) |->
             IF /\ res[i].class = e.class /\ res[i].cable_type = e.cable_type
                /\ res[i].length_bin = e.length_bin
             THEN e ELSE res[i]]
    ELSE Append(res, e)

\* The top-level keys the legacy branch skips.
MetadataKeys == {"meta", "metadata", "policy_path", "spares_fraction"}

\* Lines 93-105: the bins of one cable type, from j on.
RECURSIVE LegacyBins(_, _, _, _)
LegacyBins(res, cable_type, length_bins, j) ==
    IF j > Len(length_bins) THEN res
    ELSE IF IntRaises(length_bins[j].bin)
    THEN LegacyBins(res, cable_type, length_bins, j + 1)
    ELSE LegacyBins(AssignEntry(res,
                        ClassEntry(infer_class_from_cable_type(cable_type, length_bins[j].n),
                                   cable_type, IntOf(length_bins[j].bin), length_bins[j].n)),
                    cable_type, length_bins, j + 1)

\* Lines 87-105: the cable types of the map, from i on.
RECURSIVE LegacyTypes(_, _, _)
LegacyTypes(res, bom, i) ==
    IF i > Len(bom) THEN res
    ELSE IF bom[i].cable_type \in MetadataKeys \/ ~bom[i].is_dict
    THEN LegacyTypes(res, bom, i + 1)
    ELSE LegacyTypes(LegacyBins(res, bom[i].cable_type, bom[i].length_bins, 1), bom, i + 1)

\* _normalize_bom_to_class_structure(bom_data) for bom_data without items:
\* bom_data.get("bom", bom_data) is the flat map in either wrapping.
normalize_legacy_bom(bom) == LegacyTypes(<<>>, bom, 1)

\* The links the calculator builds: the type of the link and its base
\* distance in 1/DistScale m.
CalcLink(type, d) == [type |-> type, distance_m |-> d]

\* The bin list lines 282 and 301 pass, the slack factor and dac_max_m
\* _select_cable_type_and_bin falls back to: load_cabling_policy returns
\* neither heuristics nor media_rules.
CalcBins == <<1, 2, 3, 5, 7, 10>>

CalcSlack == (SlackScale * 6) \div 5

CalcDacMaxM == 3

\* cable_type and length_bin of the links, lines 282-291 and 301-310.
LabelledLinks(ls) ==
    [i \in 1..Len(ls) |->
        LET r == legacy_select_cable_type_and_bin(ls[i].distance_m, ls[i].type, CalcSlack,
                                                  CalcDacMaxM, CalcBins)
        IN  Link(r.cable_type, r.bin)]

\* The labels in the order yaml.dump(sort_keys=True) writes them.
SortedLabels ==
    <<"QSFP28 100G AOC", "QSFP28 100G DAC", "QSFP28 100G MMF + SR4", "RJ45 Cat6A",
      "SFP28 25G AOC", "SFP28 25G DAC", "SFP28 25G MMF + SR">>

\* An int key written by yaml.dump is a plain scalar of digits, which
\* safe_load resolves to an int again.
YamlKey(length_bin) == IntVal(length_bin)

\* _export_bom (YAML) followed by _load_bom_yaml: the "bom" map of the
\* file, its keys sorted.
ExportedBom(bom) ==
    LET types == SelectSeq(SortedLabels,
                           LAMBDA c : \E pair \in DOMAIN bom : pair.cable_type = c)
        bins(c) == SelectSeq(CalcBins, LAMBDA b : Link(c, b) \in DOMAIN bom)
    IN  [i \in 1..Len(types) |->
            LegacyEntry(types[i], TRUE,
                        [j \in 1..Len(bins(types[i])) |->
                            [bin |-> YamlKey(bins(types[i])[j]),
                             n |-> bom[Link(types[i], bins(types[i])[j])]]])]

\* Link lists of the calculator: a few spine-to-leaf links of either optical
\* type at near, middle and far distances, and runs of RJ45 trunks.
CalcLinkLists ==
    {<<CalcLink(t1, d1 * DistScale), CalcLink(t2, d2 * DistScale)>> \o Repeat(CalcLink("RJ45", 2 * DistScale), w) :
        t1 \in {"25G", "100G"}, t2 \in {"25G", "100G"}, d1 \in {2, 5, 12}, d2 \in {2, 12},
        w \in {0, 2, 11}}

\* The keys of a length_bins dict of a hand-written file.
LegacyKeys == {IntVal(3), IntVal(7), DigitsVal(7), StrVal}

LegacyQuantities == {1, MgmtThreshold, MgmtThreshold + 1}

\* length_bins dicts: one or two keys; two keys name different bins.
LegacyBinDicts ==
    {<<[bin |-> k, n |-> q]>> : k \in LegacyKeys, q \in LegacyQuantities}
        \cup {<<[bin |-> kk[1], n |-> q1], [bin |-> kk[2], n |-> q2]>> :
                kk \in {kk \in LegacyKeys \X LegacyKeys : kk[1].v # kk[2].v},
                q1 \in LegacyQuantities, q2 \in LegacyQuantities}

LegacyCableTypes ==
    {"sfp28_25g_dac", "SFP28_25G_AOC", "qsfp28_100g_aoc", "rj45_cat6a", "om4_fiber"}

\* Hand-written flat maps: one or two cable types, with or without a
\* metadata key in front.
LegacyBoms ==
    LET one == {<<LegacyEntry(c, TRUE, d)>> : c \in LegacyCableTypes, d \in LegacyBinDicts}
        two == {<<LegacyEntry(c1, TRUE, d1), LegacyEntry(c2, TRUE, <<[bin |-> k, n |-> q]>>)>> :
                   c1 \in {"SFP28_25G_AOC", "rj45_cat6a"}, d1 \in LegacyBinDicts,
                   c2 \in {"qsfp28_100g_aoc", "om4_fiber"}, k \in {IntVal(7)},
                   q \in LegacyQuantities}
        meta == {<<>>, <<LegacyEntry("spares_fraction", FALSE, <<>>)>>,
                 <<LegacyEntry("metadata", TRUE, <<[bin |-> StrVal, n |-> 0]>>)>>}
    IN  {h \o b : h \in meta, b \in one \cup two}

InitLegacy ==
    /\ mode = "legacy"
    /\ \/ /\ pc = "start"
          /\ links \in CalcLinkLists
          /\ spares_fraction \in SparesFractions
          /\ cable_bom = <<>>
       \/ /\ pc = "written"
          /\ links = <<>>
          /\ spares_fraction = Idle
          /\ cable_bom \in LegacyBoms
    /\ bom_structure = <<>>
    /\ intent_structure = Idle /\ bin_slop_m = Idle /\ group_order = Idle
    /\ reconciled_bom = Idle /\ reconciled_intent = Idle
    /\ findings = <<>>
    /\ GeomIdle /\ ValidationIdle /\ OrchIdle /\ PassIdle

\* calculate_cabling_bom, lines 431-445: the links are labelled and counted,
\* and the BOM is written as YAML.
ExportBom ==
    /\ mode = "legacy" /\ pc = "start"
    /\ cable_bom' = ExportedBom(aggregate_cable_bom(LabelledLinks(links), spares_fraction))
    /\ pc' = "written"
    /\ UNCHANGED <<mode, findings, links, spares_fraction, reconVars, geomVars,
                   validationVars, orchVars, passVars>>

\* _normalize_bom_to_class_structure on the loaded file.
NormalizeLegacyBom ==
    /\ mode = "legacy" /\ pc = "written"
    /\ bom_structure' = normalize_legacy_bom(cable_bom)
    /\ pc' = "normalized"
    /\ UNCHANGED <<mode, findings, bomVars, intent_structure, bin_slop_m, group_order,
                   reconciled_bom, reconciled_intent, geomVars, validationVars, orchVars,
                   passVars>>

NextLegacy == ExportBom \/ NormalizeLegacyBom

SpecLegacy == InitLegacy /\ [][NextLegacy]_vars

(***************************************************************************)
(* Properties of the legacy BOM format                                     *)
(***************************************************************************)
LegacyNormalized == mode = "legacy" /\ pc = "normalized"

\* The (cable_type, bin, quantity) entries of the flat map, as positions:
\* the keys that are bins under the keys that are cable types.
FlatEntries ==
    {ij \in (1..Len(cable_bom)) \X (1..2) :
        /\ cable_bom[ij[1]].is_dict
        /\ cable_bom[ij[1]].cable_type \notin {"meta", "metadata", "policy_path",
                                                "spares_fraction"}
        /\ ij[2] <= Len(cable_bom[ij[1]].length_bins)
        /\ cable_bom[ij[1]].length_bins[ij[2]].bin.kind \in {"int", "digits"}}

FlatQuantity(ij) == cable_bom[ij[1]].length_bins[ij[2]].n

\* The entries of the normalized structure a flat entry went to.
PlacesOf(ij) ==
    {k \in 1..Len(bom_structure) :
        /\ bom_structure[k].cable_type = cable_bom[ij[1]].cable_type
        /\ bom_structure[k].length_bin = cable_bom[ij[1]].length_bins[ij[2]].bin.v}

\* The class the legacy rule states for a cable type.
StatedClass(cable_type, quantity) ==
    IF cable_type \in {"sfp28_25g", "sfp28_25g_dac", "SFP28_25G_AOC"} THEN "leaf-node"
    ELSE IF cable_type \in {"qsfp28_100g", "qsfp28_100g_aoc"} THEN "leaf-spine"
    ELSE IF cable_type = "rj45_cat6a"
    THEN IF quantity > 10 THEN "mgmt" ELSE "wan"
    ELSE "unknown"

CalculatorBomNormalized == LegacyNormalized /\ links # <<>>

\* The link classes of the media of a calculator label.
MediaClasses(cable_type) ==
    IF cable_type \in {Label("25G", tier) : tier \in {"dac", "aoc", "fiber"}}
    THEN {"leaf-node"}
    ELSE IF cable_type \in {Label("100G", tier) : tier \in {"dac", "aoc", "fiber"}}
    THEN {"leaf-spine"}
    ELSE IF cable_type = "RJ45 Cat6A" THEN {"mgmt", "wan"}
    ELSE {}

\* C30: every entry of a BOM written by the BOM calculator (a flat map keyed
\* by the labels select_cable_type_and_bin produces) is assigned by legacy
\* class inference to the link class of its media (25G to leaf-node, 100G to
\* leaf-spine, RJ45 to mgmt or wan) and never to the class unknown.
C30_CalculatorBomClassified ==
    CalculatorBomNormalized =>
        \A k \in 1..Len(bom_structure) :
            /\ bom_structure[k].class \in MediaClasses(bom_structure[k].cable_type)
            /\ bom_structure[k].class # "unknown"

\* What the code does instead: every entry the calculator wrote is kept with
\* its label, bin and quantity, under the class unknown.
CalculatorBomAllUnknown ==
    CalculatorBomNormalized =>
        /\ Len(bom_structure) = Cardinality(FlatEntries)
        /\ FlatEntries # {}
        /\ \A k \in 1..Len(bom_structure) :
            /\ bom_structure[k].class = "unknown"
            /\ MediaClasses(bom_structure[k].cable_type) # {}

\* A calculator run with a 25G and a 100G link and eleven RJ45 trunks: the
\* DAC labels and the RJ45 label all sit under unknown.
CalculatorLabelsUnknown ==
    /\ CalculatorBomNormalized
    /\ \E k \in 1..Len(bom_structure) :
        /\ bom_structure[k].class = "unknown"
        /\ bom_structure[k].cable_type = "SFP28 25G DAC"
    /\ \E k \in 1..Len(bom_structure) :
        /\ bom_structure[k].class = "unknown"
        /\ bom_structure[k].cable_type = "QSFP28 100G MMF + SR4"
    /\ \E k \in 1..Len(bom_structure) :
        /\ bom_structure[k].class = "unknown"
        /\ bom_structure[k].cable_type = "RJ45 Cat6A"
        /\ bom_structure[k].n > 10

(***************************************************************************)
(* Link building: common.build_network_links                               *)
(***************************************************************************)
\* Switch: a spine or a leaf; connects_to holds the leaf ids its interfaces
\* name before the colon.
Switch(id, rack_id, connects_to) == [id |-> id, rack_id |-> rack_id, connects_to |-> connects_to]

NetworkTopology(spines, leafs) == [spines |-> spines, leafs |-> leafs]

\* "distance_m = 3.0  # Default fallback", in metres.
FallbackDistanceM == 3

\* rack_positions of lines 121-124: filled from every site rack when the
\* first one has a grid; a later rack without a grid is entered with None.
LinkRackPositionIds(s) ==
    IF ~s.is_none /\ Len(s.racks) > 0 /\ s.racks[1].grid # NoGrid
    THEN {s.racks[i].id : i \in 1..Len(s.racks)}
    ELSE {}

\* rack_positions[id]: the grid of the last site rack of that id.
LinkRackPosition(s, id) ==
    s.racks[CHOOSE i \in 1..Len(s.racks) :
                /\ s.racks[i].id = id
                /\ \A j \in (i + 1)..Len(s.racks) : s.racks[j].id # id].grid

\* spine_rack of lines 126-129: the rack of the first spine.
SpineRack(t) == IF Len(t.spines) > 0 THEN t.spines[1].rack_id ELSE NoKey

\* Lines 186-207: distance_m of a link to a leaf in leaf_rack, in
\* 1/DistScale m; subscripting a None grid raises TypeError.
LinkDistance(t, s, p, leaf_rack) ==
    IF SpineRack(t) \in LinkRackPositionIds(s) /\ leaf_rack \in LinkRackPositionIds(s)
    THEN IF LinkRackPosition(s, SpineRack(t)) = NoGrid \/ LinkRackPosition(s, leaf_rack) = NoGrid
         THEN Raise("TypeError")
         ELSE Value(calculate_manhattan_distance(LinkRackPosition(s, SpineRack(t)),
                                                 LinkRackPosition(s, leaf_rack),
                                                 p.heuristics.tile_m))
    ELSE IF s.is_none
    THEN IF SpineRack(t) = leaf_rack THEN Value(p.heuristics.same_rack_leaf_to_node_m)
         ELSE Value(p.heuristics.adjacent_rack_leaf_to_spine_m)
    ELSE Value(FallbackDistanceM * DistScale)

\* next(filter(lambda x: x.id == leaf_id, leafs)): the index of the first
\* such leaf, 0 when next raises StopIteration.
LeafIndexOf(t, leaf_id) ==
    IF \E i \in 1..Len(t.leafs) : t.leafs[i].id = leaf_id
    THEN CHOOSE i \in 1..Len(t.leafs) :
             /\ t.leafs[i].id = leaf_id
             /\ \A j \in 1..(i - 1) : t.leafs[j].id # leaf_id
    ELSE 0

NetworkLink(spine_id, leaf_id, d, cable_type, length_bin) ==
    [from |-> spine_id, to |-> leaf_id, type |-> "100G", distance_m |-> d,
     cable_type |-> cable_type, length_bin |-> length_bin, category |-> "spine_to_leaf"]

\* Lines 168-228 for the interfaces of spine i from j on, then the later
\* spines; ls holds the links appended so far.
RECURSIVE SpineLinks(_, _, _, _, _, _)
SpineLinks(t, s, p, ls, i, j) ==
    IF i > Len(t.spines) THEN Value(ls)
    ELSE IF j > Len(t.spines[i].connects_to) THEN SpineLinks(t, s, p, ls, i + 1, 1)
    ELSE LET leaf_id == t.spines[i].connects_to[j] IN
         IF LeafIndexOf(t, leaf_id) = 0 THEN Raise("StopIteration")
         ELSE LET d == LinkDistance(t, s, p, t.leafs[LeafIndexOf(t, leaf_id)].rack_id) IN
              IF d.raised THEN d
              ELSE LET r == select_cable_type_and_bin(d.value, "100G", p.heuristics.slack_factor,
                                                      p.dac_max_m, TRUE, CalcBins)
                   IN  SpineLinks(t, s, p,
                                  Append(ls, NetworkLink(t.spines[i].id, leaf_id, d.value,
                                                         r.cable_type, r.bin)),
                                  i, j + 1)

\* build_network_links(topology, site, policy); the test of line 236 finds
\* no "spine" in a SiteRec, so no WAN link is added.
build_network_links(t, s, p) == SpineLinks(t, s, p, <<>>, 1, 1)

\* Topologies: one spine, or two spines in different racks; each interface
\* names a leaf, tor-x being no leaf.
LinkSpineLists ==
    {<<Switch("spine-1", r, c)>> :
        r \in {"rack-1", "rack-2"},
        c \in {<<"tor-1">>, <<"tor-1", "tor-2">>, <<"tor-2", "tor-x">>}}
        \cup {<<Switch("spine-1", "rack-1", <<"tor-2">>), Switch("spine-2", r, <<"tor-1">>)>> :
                r \in {"rack-1", "rack-3"}}

LinkTopologies ==
    {NetworkTopology(sp, <<Switch("tor-1", "rack-1", <<>>), Switch("tor-2", r, <<>>)>>) :
        sp \in LinkSpineLists, r \in {"rack-2", "rack-3"}}

\* Sites: none; every rack positioned; the first or a later rack without a
\* grid; racks missing; no rack at all.
LinkSites ==
    {NoSite} \cup
    {[is_none |-> FALSE, racks |-> r] :
        r \in {<<SiteRack("rack-1", <<0, 0>>), SiteRack("rack-2", <<1, 0>>),
                 SiteRack("rack-3", <<2, 2>>)>>,
               <<SiteRack("rack-1", NoGrid), SiteRack("rack-2", <<1, 0>>),
                 SiteRack("rack-3", <<2, 2>>)>>,
               <<SiteRack("rack-1", <<0, 0>>), SiteRack("rack-2", NoGrid),
                 SiteRack("rack-3", <<2, 2>>)>>,
               <<SiteRack("rack-1", <<0, 0>>)>>,
               <<>>}}

\* CablingPolicy: the heuristics (distances in 1/DistScale m) and the
\* 100G rule's dac_max_m; the defaults but for tile_m.
LinkPolicies ==
    {[heuristics |-> [same_rack_leaf_to_node_m |-> 2 * DistScale,
                      adjacent_rack_leaf_to_spine_m |-> 10 * DistScale,
                      tile_m |-> tile, slack_factor |-> (SlackScale * 6) \div 5],
      dac_max_m |-> CalcDacMaxM] : tile \in {1, 2}}

InitLinks ==
    /\ mode = "links"
    /\ pc = "start"
    /\ topology \in LinkTopologies
    /\ site \in LinkSites
    /\ policy \in LinkPolicies
    /\ nodes = <<>>
    /\ links = <<>>
    /\ spares_fraction = Idle /\ cable_bom = Idle
    /\ findings = <<>>
    /\ ReconIdle /\ GeomIdle /\ OrchIdle /\ PassIdle

\* One call of build_network_links.
BuildNetworkLinks ==
    /\ mode = "links" /\ pc = "start"
    /\ LET r == build_network_links(topology, site, policy)
       IN  IF r.raised THEN pc' = "raised" /\ links' = links
           ELSE pc' = "returned" /\ links' = r.value
    /\ UNCHANGED <<mode, findings, validationVars, spares_fraction, cable_bom, reconVars,
                   geomVars, orchVars, passVars>>

NextLinks == BuildNetworkLinks

SpecLinks == InitLinks /\ [][NextLinks]_vars

(***************************************************************************)
(* Properties of build_network_links                                       *)
(***************************************************************************)
\* Every connects_to of the topology resolves to a leaf.
AllLeafsResolve ==
    \A i \in 1..Len(topology.spines) : \A j \in 1..Len(topology.spines[i].connects_to) :
        \E k \in 1..Len(topology.leafs) :
            topology.leafs[k].id = topology.spines[i].connects_to[j]

\* The rack is positioned in the site.
Positioned(rack_id) ==
    /\ ~site.is_none
    /\ \E i \in 1..Len(site.racks) : site.racks[i].id = rack_id /\ site.racks[i].grid # NoGrid

GridOf(rack_id) ==
    site.racks[CHOOSE i \in 1..Len(site.racks) :
                   site.racks[i].id = rack_id /\ site.racks[i].grid # NoGrid].grid

RackOfSwitch(switches, id) ==
    switches[CHOOSE i \in 1..Len(switches) : switches[i].id = id].rack_id

\* The distance the rule states for a link between two racks.
StatedLinkDistance(spine_rack, leaf_rack) ==
    IF Positioned(spine_rack) /\ Positioned(leaf_rack)
    THEN (Abs(GridOf(spine_rack)[1] - GridOf(leaf_rack)[1])
            + Abs(GridOf(spine_rack)[2] - GridOf(leaf_rack)[2]))
             * policy.heuristics.tile_m * DistScale
    ELSE IF spine_rack = leaf_rack THEN policy.heuristics.same_rack_leaf_to_node_m
    ELSE policy.heuristics.adjacent_rack_leaf_to_spine_m

\* C25: for every spine interface whose connects_to resolves to a leaf,
\* build_network_links uses as the link's distance the Manhattan grid
\* distance times tile_m when both the spine's rack and the leaf's rack are
\* positioned in the site, and otherwise a policy heuristic:
\* same_rack_leaf_to_node_m when spine and leaf are in the same rack,
\* adjacent_rack_leaf_to_spine_m when they are in different racks, whether
\* the site is absent or present without those positions.
C25_LinkDistances ==
    mode = "links" /\ pc # "start" /\ AllLeafsResolve =>
        /\ pc = "returned"
        /\ Len(links) = SumSeq([i \in 1..Len(topology.spines) |->
                                   Len(topology.spines[i].connects_to)])
        /\ \A k \in 1..Len(links) :
            links[k].distance_m
                = StatedLinkDistance(RackOfSwitch(topology.spines, links[k].from),
                                     RackOfSwitch(topology.leafs, links[k].to))

\* What the code does for the links of the first spine when it returns: the
\* stated distance when the site is absent, or when both racks are
\* positioned in a site whose first rack has a grid; the fixed 3.0 m for
\* every other site.
LinkDistancesOfFirstSpine ==
    mode = "links" /\ pc = "returned" =>
        \A k \in 1..Len(links) :
            links[k].from = topology.spines[1].id =>
                links[k].distance_m
                    = (IF site.is_none
                          \/ (/\ Len(site.racks) > 0
                              /\ site.racks[1].grid # NoGrid
                              /\ Positioned(topology.spines[1].rack_id)
                              /\ Positioned(RackOfSwitch(topology.leafs, links[k].to)))
                       THEN StatedLinkDistance(topology.spines[1].rack_id,
                                               RackOfSwitch(topology.leafs, links[k].to))
                       ELSE FallbackDistanceM * DistScale)

\* A site that positions the spine's rack only: the link to the leaf in
\* another rack carries 3.0 m, not adjacent_rack_leaf_to_spine_m.
LinkFallbackDistance ==
    /\ mode = "links" /\ pc = "returned"
    /\ site = [is_none |-> FALSE, racks |-> <<SiteRack("rack-1", <<0, 0>>)>>]
    /\ Len(topology.spines) = 1 /\ topology.spines[1].rack_id = "rack-1"
    /\ \E k \in 1..Len(links) :
        /\ links[k].to = "tor-2"
        /\ links[k].distance_m = FallbackDistanceM * DistScale
        /\ links[k].distance_m # policy.heuristics.adjacent_rack_leaf_to_spine_m

\* A site rack without a grid after a positioned one: the call raises.
LinkGridNoneRaises ==
    /\ mode = "links" /\ pc = "raised"
    /\ AllLeafsResolve
    /\ ~site.is_none


(***************************************************************************)
(* Reconciliation of groups with several leftover bins                     *)
(***************************************************************************)
\* Largest total quantity of the leaf-node group on one side: enough for
\* two leftover bins of different quantities.
GreedyMaxQty == 3

\* The leaf-spine group is the same on both sides.
GreedyLeafSpineDicts == {<<[bin |-> 7, n |-> 1]>>}

GreedyStructures ==
    {[g \in Groups |-> IF g[1] = "leaf-node" THEN d ELSE e] :
        d \in Dicts(LeafNodeBins, GreedyMaxQty), e \in GreedyLeafSpineDicts}

InitGreedy ==
    /\ mode = "reconcile"
    /\ pc = "start"
    /\ bom_structure \in GreedyStructures
    /\ intent_structure \in GreedyStructures
    /\ bin_slop_m \in BinSlops
    /\ group_order = Idle
    /\ reconciled_bom = Idle
    /\ reconciled_intent = Idle
    /\ findings = <<>>
    /\ GeomIdle /\ ValidationIdle /\ OrchIdle
    /\ PassIdle /\ BomIdle

SpecGreedy == InitGreedy /\ [][NextRecon]_vars

(***************************************************************************)
(* Properties of the greedy reconciliation                                 *)
(***************************************************************************)
\* What the exact-match pass leaves of group g (lines 308-322), computed
\* from the inputs.
Leftover(g) ==
    ExactLoop(bom_structure[g], intent_structure[g],
              Keys(bom_structure[g]), Keys(intent_structure[g]), 1)

\* The quantity of group g the exact-match pass matched.
ExactMatched(g) ==
    SumN(bom_structure[g]) - SumN(Leftover(g).rb)

InGroup(f, g) == f.class = g[1] /\ f.cable_type = g[2]

IsBinMismatch(f) == f.code \in {"BIN_MISMATCH_WARN", "BIN_MISMATCH_FAIL"}

\* The findings of group g with the given code for length bin b.
BinFindings(g, code, b) ==
    {i \in 1..Len(findings) :
        InGroup(findings[i], g) /\ findings[i].code = code /\ findings[i].length_bin_m = b}

\* Leftover BOM bin b of group g has another quantity than the leftover
\* intent bin closest to it.
UnequalToClosest(g, b) ==
    /\ b \in KeySet(Leftover(g).rb)
    /\ Leftover(g).ri # <<>>
    /\ Get(Leftover(g).rb, b) #
           Get(Leftover(g).ri, ClosestIntentBin(Keys(Leftover(g).ri), b))

\* C26: a leftover BOM bin whose quantity differs from that of its closest
\* leftover intent bin gets no BIN_MISMATCH finding; the BOM bin is reported
\* as one PHANTOM_ITEM with its full leftover quantity and the intent bin as
\* one MISSING_LINK with its full leftover quantity.
C26_UnequalQuantitiesFallThrough ==
    \A g \in Groups : \A b \in LeafNodeBins \cup {7} :
        (mode = "reconcile" /\ UnequalToClosest(g, b))
            => /\ pc # "raised"
               /\ pc = "done" =>
                    LET c == ClosestIntentBin(Keys(Leftover(g).ri), b) IN
                    /\ ~\E i \in 1..Len(findings) :
                           /\ InGroup(findings[i], g) /\ IsBinMismatch(findings[i])
                           /\ findings[i].bom_bin_m = b
                    /\ Cardinality(BinFindings(g, "PHANTOM_ITEM", b)) = 1
                    /\ \A i \in BinFindings(g, "PHANTOM_ITEM", b) :
                           findings[i].provided = Get(Leftover(g).rb, b)
                    /\ Cardinality(BinFindings(g, "MISSING_LINK", c)) = 1
                    /\ \A i \in BinFindings(g, "MISSING_LINK", c) :
                           findings[i].required = Get(Leftover(g).ri, c)

\* Whenever the function returns, such a BOM bin has no BIN_MISMATCH finding
\* and is one PHANTOM_ITEM with its full leftover quantity.
UnequalBomBinIsPhantom ==
    \A g \in Groups : \A b \in LeafNodeBins \cup {7} :
        (ReconDone /\ UnequalToClosest(g, b))
            => /\ ~\E i \in 1..Len(findings) :
                      /\ InGroup(findings[i], g) /\ IsBinMismatch(findings[i])
                      /\ findings[i].bom_bin_m = b
               /\ Cardinality(BinFindings(g, "PHANTOM_ITEM", b)) = 1
               /\ \A i \in BinFindings(g, "PHANTOM_ITEM", b) :
                      findings[i].provided = Get(Leftover(g).rb, b)

\* The function has returned, and the intent bin closest to a BOM bin of
\* another quantity went to a bin mismatch with a second BOM bin: it has no
\* MISSING_LINK finding.
ClosestIntentBinConsumed ==
    /\ ReconDone
    /\ \E g \in Groups : \E b \in LeafNodeBins :
           /\ UnequalToClosest(g, b)
           /\ LET c == ClosestIntentBin(Keys(Leftover(g).ri), b) IN
              /\ BinFindings(g, "MISSING_LINK", c) = {}
              /\ \E i \in 1..Len(findings) :
                     /\ InGroup(findings[i], g) /\ IsBinMismatch(findings[i])
                     /\ findings[i].intent_bin_m = c /\ findings[i].bom_bin_m # b

\* A BOM bin of another quantity than its closest intent bin, and the
\* lookup of that intent bin raised KeyError.
UnequalBinKeyError ==
    /\ mode = "reconcile" /\ pc = "raised"
    /\ \E g \in Groups : \E b \in LeafNodeBins : UnequalToClosest(g, b)


\* The BIN_MISMATCH findings of group g that name intent bin c.
MismatchesOfIntentBin(g, c) ==
    {i \in 1..Len(findings) :
        /\ InGroup(findings[i], g) /\ IsBinMismatch(findings[i])
        /\ findings[i].intent_bin_m = c}

\* Each intent bin is in at most one BIN_MISMATCH finding of its group.
IntentBinInOneMismatch ==
    mode = "reconcile" =>
        \A g \in Groups : \A c \in LeafNodeBins \cup {7} :
            Cardinality(MismatchesOfIntentBin(g, c)) <= 1

\* C27: for every BOM and intent multiset the function runs to completion
\* and returns a findings list; an intent bin a bin mismatch has consumed is
\* never looked up again for a later BOM bin of the group, and each intent
\* bin is in at most one BIN_MISMATCH finding.
C27_ReconcileCompletes ==
    /\ mode = "reconcile" => pc # "raised"
    /\ IntentBinInOneMismatch

\* A bin mismatch consumed intent bin c of a group, a later BOM bin of the
\* group selected c again, and the lookup raised KeyError: no findings list
\* is returned.
ConsumedIntentBinLookedUpAgain ==
    /\ mode = "reconcile" /\ pc = "raised"
    /\ \E g \in Groups : \E c \in LeafNodeBins :
           /\ MismatchesOfIntentBin(g, c) # {}
           /\ ~HasKey(reconciled_intent[g], c)
           /\ \E b \in KeySet(reconciled_bom[g]) :
                  ClosestIntentBin(Keys(Leftover(g).ri), b) = c


\* The whole of _reconcile_bom_vs_intent (lines 268-408) on given structures,
\* with the groups taken in the given order.
ReconcileFindings(bom_s, intent_s, order, slop) ==
    LET r == FirstPassLoop(order, bom_s, intent_s, <<>>, slop, 1)
    IN  IF r.raised THEN Raise("KeyError")
        ELSE Value(r.f \o MissingLoop(order, r.RI, 1) \o PhantomLoop(order, r.RB, 1))

ReverseDict(d) == [i \in 1..Len(d) |-> d[Len(d) + 1 - i]]

FindingSet(fs) == {fs[i] : i \in 1..Len(fs)}

\* The intent structure with the bins of group g inserted in the opposite
\* order: the same multiset.
IntentReordered(g) == [intent_structure EXCEPT ![g] = ReverseDict(@)]

\* The exact-match pass leaves group g one BOM bin and two intent bins at
\* the same distance from it, one of them at least with the BOM bin's
\* quantity.
TieAtEqualDistance(g) ==
    LET rb == Leftover(g).rb
        ri == Leftover(g).ri
    IN  /\ Len(rb) = 1 /\ Len(ri) = 2
        /\ Abs(ri[1].bin - rb[1].bin) = Abs(ri[2].bin - rb[1].bin)
        /\ ri[1].n = rb[1].n \/ ri[2].n = rb[1].n

\* C28: the reconciliation is sensitive to iteration order: for a group
\* whose leftover BOM bin has two leftover intent bins at equal distance,
\* the same multisets with the intent bins iterated in the opposite order
\* yield a different set of findings.
C28_OrderSensitive ==
    \A g \in Groups :
        (ReconDone /\ TieAtEqualDistance(g))
            => LET other == ReconcileFindings(bom_structure, IntentReordered(g),
                                              group_order, bin_slop_m)
               IN  /\ ~other.raised
                   /\ \A h \in Groups : SameDict(IntentReordered(g)[h], intent_structure[h])
                   /\ FindingSet(other.value) # FindingSet(findings)

C28_Witness ==
    /\ ReconDone
    /\ \E g \in Groups :
           /\ TieAtEqualDistance(g)
           /\ \E i \in 1..Len(findings) :
                  /\ InGroup(findings[i], g) /\ findings[i].code = "BIN_MISMATCH_WARN"
           /\ LET other == ReconcileFindings(bom_structure, IntentReordered(g),
                                             group_order, bin_slop_m)
              IN  /\ ~other.raised
                  /\ \E i \in 1..Len(other.value) :
                         /\ InGroup(other.value[i], g)
                         /\ other.value[i].code = "BIN_MISMATCH_FAIL"

\* Several leftover BOM bins compete for one intent bin: in the order the
\* run took them the function returned, in the opposite order the lookup of
\* the consumed intent bin raises KeyError.
CompetingBomBinsOrder ==
    /\ ReconDone
    /\ \E g \in Groups :
           /\ Len(Leftover(g).rb) = 2 /\ Len(Leftover(g).ri) = 1
           /\ ReconcileFindings([bom_structure EXCEPT ![g] = ReverseDict(@)],
                                intent_structure, group_order, bin_slop_m).raised


\* The sum over the findings of group g chosen by their code of the
\* quantity q gives for each index.
SumFindings(g, codes, q) ==
    SumSeq([i \in 1..Len(findings) |->
                IF InGroup(findings[i], g) /\ findings[i].code \in codes
                THEN q[i] ELSE 0])

MismatchCodes == {"BIN_MISMATCH_WARN", "BIN_MISMATCH_FAIL"}

\* The quantity of the BOM bins of group g that bin mismatches consumed,
\* and of the intent bins: what the exact-match pass left of each bin.
MismatchedBom(g) ==
    SumFindings(g, MismatchCodes,
                [i \in 1..Len(findings) |->
                    IF IsBinMismatch(findings[i]) /\ HasKey(Leftover(g).rb, findings[i].bom_bin_m)
                    THEN Get(Leftover(g).rb, findings[i].bom_bin_m) ELSE 0])

MismatchedIntent(g) ==
    SumFindings(g, MismatchCodes,
                [i \in 1..Len(findings) |->
                    IF IsBinMismatch(findings[i])
                       /\ HasKey(Leftover(g).ri, findings[i].intent_bin_m)
                    THEN Get(Leftover(g).ri, findings[i].intent_bin_m) ELSE 0])

PhantomProvided(g) ==
    SumFindings(g, {"PHANTOM_ITEM"}, [i \in 1..Len(findings) |-> findings[i].provided])

MissingRequired(g) ==
    SumFindings(g, {"MISSING_LINK"}, [i \in 1..Len(findings) |-> findings[i].required])

\* The bins finding f reports.
BinsOf(f) == {f.bom_bin_m, f.intent_bin_m, f.length_bin_m} \ {None}

\* Every unit of each group is accounted for once, and no bin of a group is
\* reported by two findings.
EveryUnitOnce ==
    ReconDone =>
        \A g \in Groups :
            /\ SumN(bom_structure[g]) =
                   ExactMatched(g) + MismatchedBom(g) + PhantomProvided(g)
            /\ SumN(intent_structure[g]) =
                   ExactMatched(g) + MismatchedIntent(g) + MissingRequired(g)
            /\ \A i, j \in 1..Len(findings) :
                   (i # j /\ InGroup(findings[i], g) /\ InGroup(findings[j], g))
                       => BinsOf(findings[i]) \cap BinsOf(findings[j]) = {}

\* No step of the reconciliation writes to the input structures.
InputsUnchanged ==
    mode = "reconcile" =>
        bom_structure' = bom_structure /\ intent_structure' = intent_structure

\* C29: whenever the function returns, for each group the total BOM
\* quantity is the exactly matched quantity plus the quantities of the BOM
\* bins bin mismatches consumed plus the provided of the PHANTOM_ITEM
\* findings, the total intent quantity is the exactly matched quantity plus
\* the quantities of the intent bins bin mismatches consumed plus the
\* required of the MISSING_LINK findings, no bin of a group is reported by
\* two findings, and the input structures are left unchanged.
C29_EveryUnitOnce == []EveryUnitOnce /\ [][InputsUnchanged]_vars

\* A return where one group had exact matches, a bin mismatch, a phantom
\* item and a missing link at once.
C29_Witness ==
    /\ ReconDone
    /\ \E g \in Groups :
           /\ ExactMatched(g) > 0
           /\ MismatchedBom(g) > 0
           /\ PhantomProvided(g) + MissingRequired(g) > 0

====
